---- MODULE Spec2Model ----
(***************************************************************************)
(* Hospital-Management-System backend: the appointment conflict detector   *)
(* and lifecycle (app/crud.py, app/routers.py) and the refresh-token       *)
(* lifecycle (app/routers.py, app/crud.py, app/security.py).               *)
(*                                                                         *)
(* Conventions.                                                            *)
(*  - Optional[T] is a sequence of length <= 1: None is <<>>, a value x is *)
(*    <<x>>.                                                               *)
(*  - A datetime is a number of minutes counted from a Monday 00:00.       *)
(*  - A Python str that the code compares (the "HH:MM" columns) is the     *)
(*    sequence of its code points; comparison is lexicographic as in       *)
(*    Python.  Other strings (status, notes, details) are TLA+ strings.    *)
(*  - A table is the sequence of its rows in insertion order; the primary  *)
(*    key of a row is its index (auto-increment from 1).                   *)
(***************************************************************************)
EXTENDS Integers, Sequences, FiniteSets, TLC

VARIABLES
    appointments,     \* table appointments (models.Appointment)
    availabilities,   \* table doctor_availabilities (models.DoctorAvailability)
    refresh_tokens,   \* table refresh_tokens (models.RefreshToken)
    now,              \* the wall clock, datetime.utcnow(), in minutes
    issued,           \* the tokens handed to clients so far
    response,         \* what the last finished request returned to its caller
    req,              \* the requests in flight in the concurrent specifications
    patients,         \* table patients (models.Patient), the three sealed columns
    cipher            \* one value on its way through encryption.encrypt / decrypt

vars == <<appointments, availabilities, refresh_tokens, now, issued, response, req,
          patients, cipher>>

----------------------------------------------------------------------------
(* Bounds of the model *)

MaxAppts == 2       \* rows the appointments table may hold
MaxAvail == 2       \* rows the doctor_availabilities table may hold
MaxTokens == 3      \* rows the refresh_tokens table may hold
MaxTicks == 3       \* times the clock advances
LcMaxAppts == 1     \* appointments booked in the lifecycle specification

(* Program constants *)

SlotMinutes == 29                        \* timedelta(minutes=29)
REFRESH_TOKEN_EXPIRE_MINUTES == 10080    \* 60 * 24 * 7
ACCESS_TOKEN_EXPIRE_MINUTES == 30

(* The registered population: profile ids of patients and doctors, user ids *)
Patients == {1, 2}
Doctors == {1, 2}
Users == {1, 2}

None == <<>>
Some(x) == <<x>>
Val(o) == o[1]

\* no value is on its way through encryption
IdleCipher == [op |-> "idle", plaintext |-> None, sealed |-> None, token |-> None, opened |-> None]

----------------------------------------------------------------------------
(* Python semantics used by the code *)

\* str < str : lexicographic comparison of the code points
StrLT(a, b) ==
    \E k \in 1..(Len(a) + 1) :
        /\ \A j \in 1..(k - 1) : j <= Len(b) /\ a[j] = b[j]
        /\ \/ k = Len(a) + 1 /\ k <= Len(b)
           \/ k <= Len(a) /\ k <= Len(b) /\ a[k] < b[k]

StrLE(a, b) == a = b \/ StrLT(a, b)

\* datetime.weekday(): Monday is 0
weekday(t) == (t \div 1440) % 7

\* datetime.strftime("%H:%M"): two zero-padded digits, a colon, two digits
strftime(t) ==
    LET m == t % 1440
        h == m \div 60
        mi == m % 60
    IN  <<48 + (h \div 10), 48 + (h % 10), 58, 48 + (mi \div 10), 48 + (mi % 10)>>

\* truthiness of an Optional[int]: None and 0 are falsy
Truthy(o) == o # None /\ Val(o) # 0

Abs(x) == IF x < 0 THEN 0 - x ELSE x

----------------------------------------------------------------------------
(* models.AppointmentStatus *)

PENDING == "pending"
APPROVED == "approved"
REJECTED == "rejected"
CANCELLED == "cancelled"
AppointmentStatus == {PENDING, APPROVED, REJECTED, CANCELLED}

(* Responses: the HTTP status code and the detail of an HTTPException *)
Ok(op) == [op |-> op, code |-> 200, detail |-> "ok"]
Err(op, code, detail) == [op |-> op, code |-> code, detail |-> detail]

DoctorUnavailable == "Doctor not available at this time"
DoctorSlotConflict == "Doctor has another appointment in that slot"
PatientSlotConflict == "Patient has another appointment in that slot"
InvalidStatus == "is not a valid AppointmentStatus"

----------------------------------------------------------------------------
(* crud._validate_appointment_slot: "ok", or the message of the ValueError *)

\* any(a.start_time <= time_str < a.end_time for a in avail_list)
available(avails, doctor_id, scheduled_time) ==
    LET day == weekday(scheduled_time)
        time_str == strftime(scheduled_time)
    IN  \E i \in 1..Len(avails) :
            /\ avails[i].doctor_id = doctor_id
            /\ avails[i].day_of_week = day
            /\ StrLE(avails[i].start_time, time_str)
            /\ StrLT(time_str, avails[i].end_time)

\* variant: the exclude_id filter left out of the conflict queries
not_excluded_off(i, exclude_id) == TRUE

\* the filter exclude_id adds to a conflict query
not_excluded(i, exclude_id) == Truthy(exclude_id) => i # Val(exclude_id)

\* variant: the window bounds compared strictly
doctor_conflict_strict(appts, doctor_id, scheduled_time, exclude_id) ==
    \E i \in 1..Len(appts) :
        /\ appts[i].doctor_id = doctor_id
        /\ appts[i].scheduled_time > scheduled_time - SlotMinutes
        /\ appts[i].scheduled_time < scheduled_time + SlotMinutes
        /\ not_excluded(i, exclude_id)

\* variant: cancelled appointments left out of the doctor scan
doctor_conflict_active(appts, doctor_id, scheduled_time, exclude_id) ==
    \E i \in 1..Len(appts) :
        /\ appts[i].doctor_id = doctor_id
        /\ appts[i].status # "cancelled"
        /\ appts[i].scheduled_time >= scheduled_time - SlotMinutes
        /\ appts[i].scheduled_time <= scheduled_time + SlotMinutes
        /\ not_excluded(i, exclude_id)

\* db.scalar(stmt_conflict) is a row
doctor_conflict(appts, doctor_id, scheduled_time, exclude_id) ==
    LET window_start == scheduled_time - SlotMinutes
        window_end == scheduled_time + SlotMinutes
    IN  \E i \in 1..Len(appts) :
            /\ appts[i].doctor_id = doctor_id
            /\ appts[i].scheduled_time >= window_start
            /\ appts[i].scheduled_time <= window_end
            /\ not_excluded(i, exclude_id)

\* variant: the window bounds compared strictly
patient_conflict_strict(appts, patient_id, scheduled_time, exclude_id) ==
    \E i \in 1..Len(appts) :
        /\ appts[i].patient_id = patient_id
        /\ appts[i].scheduled_time > scheduled_time - SlotMinutes
        /\ appts[i].scheduled_time < scheduled_time + SlotMinutes
        /\ not_excluded(i, exclude_id)

\* db.scalar(stmt_p_conflict) is a row
patient_conflict(appts, patient_id, scheduled_time, exclude_id) ==
    LET window_start == scheduled_time - SlotMinutes
        window_end == scheduled_time + SlotMinutes
    IN  \E i \in 1..Len(appts) :
            /\ appts[i].patient_id = patient_id
            /\ appts[i].scheduled_time >= window_start
            /\ appts[i].scheduled_time <= window_end
            /\ not_excluded(i, exclude_id)

\* variant: the window rounded to 30 minutes in the doctor-slot check
validate_appointment_slot_30(appts, avails, doctor_id, patient_id, scheduled_time, exclude_id) ==
    IF ~available(avails, doctor_id, scheduled_time) THEN DoctorUnavailable
    ELSE IF \E i \in 1..Len(appts) :
                /\ appts[i].doctor_id = doctor_id
                /\ appts[i].scheduled_time >= scheduled_time - 30
                /\ appts[i].scheduled_time <= scheduled_time + 30
                /\ not_excluded(i, exclude_id)
         THEN DoctorSlotConflict
    ELSE IF patient_conflict(appts, patient_id, scheduled_time, exclude_id) THEN PatientSlotConflict
    ELSE "ok"

\* variant: the patient-slot check left out
validate_appointment_slot_no_patient(appts, avails, doctor_id, patient_id, scheduled_time, exclude_id) ==
    IF ~available(avails, doctor_id, scheduled_time) THEN DoctorUnavailable
    ELSE IF doctor_conflict(appts, doctor_id, scheduled_time, exclude_id) THEN DoctorSlotConflict
    ELSE "ok"

\* variant: the patient-slot check made before the doctor-slot check
validate_appointment_slot_patient_first(appts, avails, doctor_id, patient_id, scheduled_time, exclude_id) ==
    IF ~available(avails, doctor_id, scheduled_time) THEN DoctorUnavailable
    ELSE IF patient_conflict(appts, patient_id, scheduled_time, exclude_id) THEN PatientSlotConflict
    ELSE IF doctor_conflict(appts, doctor_id, scheduled_time, exclude_id) THEN DoctorSlotConflict
    ELSE "ok"

validate_appointment_slot(appts, avails, doctor_id, patient_id, scheduled_time, exclude_id) ==
    IF ~available(avails, doctor_id, scheduled_time) THEN DoctorUnavailable
    ELSE IF doctor_conflict(appts, doctor_id, scheduled_time, exclude_id) THEN DoctorSlotConflict
    ELSE IF patient_conflict(appts, patient_id, scheduled_time, exclude_id) THEN PatientSlotConflict
    ELSE "ok"

----------------------------------------------------------------------------
(* crud.create_appointment / crud.update_appointment / crud.reassign_appointment *)

\* variant: the new row is stored without the requested hospital
new_appointment_no_hospital(patient_id, doctor_id, hospital_id, scheduled_time) ==
    [patient_id |-> patient_id, doctor_id |-> doctor_id, hospital_id |-> None,
     scheduled_time |-> scheduled_time, status |-> PENDING, notes |-> None]

\* the row create_appointment adds
new_appointment(patient_id, doctor_id, hospital_id, scheduled_time) ==
    [patient_id |-> patient_id, doctor_id |-> doctor_id, hospital_id |-> hospital_id,
     scheduled_time |-> scheduled_time, status |-> PENDING, notes |-> None]

\* variant: a reschedule written without running the conflict detector
crud_update_appointment_unvalidated(appts, avails, id, scheduled_time, status, notes) ==
    LET appt == appts[id]
        a1 == IF scheduled_time # None
              THEN [appt EXCEPT !.scheduled_time = Val(scheduled_time)] ELSE appt
        a2 == IF status # None THEN [a1 EXCEPT !.status = Val(status)] ELSE a1
        a3 == IF notes # None THEN [a2 EXCEPT !.notes = notes] ELSE a2
    IN  IF status # None /\ Val(status) \notin AppointmentStatus
        THEN [detail |-> InvalidStatus, row |-> appt]
        ELSE [detail |-> "ok", row |-> a3]

\* variant: a failed slot check only keeps the old scheduled_time; status and notes
\* are still written and committed
crud_update_appointment_partial(appts, avails, id, scheduled_time, status, notes) ==
    LET appt == appts[id]
        slot == IF scheduled_time # None
                THEN validate_appointment_slot(appts, avails, appt.doctor_id, appt.patient_id,
                                               Val(scheduled_time), Some(id))
                ELSE "ok"
        a1 == IF scheduled_time # None /\ slot = "ok"
              THEN [appt EXCEPT !.scheduled_time = Val(scheduled_time)] ELSE appt
        a2 == IF status # None THEN [a1 EXCEPT !.status = Val(status)] ELSE a1
        a3 == IF notes # None THEN [a2 EXCEPT !.notes = notes] ELSE a2
    IN  IF status # None /\ Val(status) \notin AppointmentStatus
        THEN [detail |-> InvalidStatus, row |-> appt]
        ELSE [detail |-> "ok", row |-> a3]

\* variant: the scheduled_time assigned before the status conversion raises is flushed
\* to the store although the operation fails
crud_update_appointment_flushing(appts, avails, id, scheduled_time, status, notes) ==
    LET appt == appts[id]
        slot == IF scheduled_time # None
                THEN validate_appointment_slot(appts, avails, appt.doctor_id, appt.patient_id,
                                               Val(scheduled_time), Some(id))
                ELSE "ok"
        a1 == IF scheduled_time # None
              THEN [appt EXCEPT !.scheduled_time = Val(scheduled_time)] ELSE appt
        a2 == IF status # None THEN [a1 EXCEPT !.status = Val(status)] ELSE a1
        a3 == IF notes # None THEN [a2 EXCEPT !.notes = notes] ELSE a2
    IN  IF slot # "ok" THEN [detail |-> slot, row |-> appt]
        ELSE IF status # None /\ Val(status) \notin AppointmentStatus
             THEN [detail |-> InvalidStatus, row |-> a1]
        ELSE [detail |-> "ok", row |-> a3]

\* variant: an update without a scheduled_time re-validates the current time of the row
crud_update_appointment_revalidating(appts, avails, id, scheduled_time, status, notes) ==
    LET appt == appts[id]
        time == IF scheduled_time # None THEN Val(scheduled_time) ELSE appt.scheduled_time
        slot == validate_appointment_slot(appts, avails, appt.doctor_id, appt.patient_id,
                                          time, Some(id))
        a1 == [appt EXCEPT !.scheduled_time = time]
        a2 == IF status # None THEN [a1 EXCEPT !.status = Val(status)] ELSE a1
        a3 == IF notes # None THEN [a2 EXCEPT !.notes = notes] ELSE a2
    IN  IF slot # "ok" THEN [detail |-> slot, row |-> appt]
        ELSE IF status # None /\ Val(status) \notin AppointmentStatus
             THEN [detail |-> InvalidStatus, row |-> appt]
        ELSE [detail |-> "ok", row |-> a3]

\* crud.update_appointment on row id with AppointmentUpdate(scheduled_time, status, notes):
\* detail is "ok" and row the committed row, or detail is the ValueError and row is what
\* the store holds once the session is closed without a commit
crud_update_appointment(appts, avails, id, scheduled_time, status, notes) ==
    LET appt == appts[id]
        slot == IF scheduled_time # None
                THEN validate_appointment_slot(appts, avails, appt.doctor_id, appt.patient_id,
                                               Val(scheduled_time), Some(id))
                ELSE "ok"
        a1 == IF scheduled_time # None
              THEN [appt EXCEPT !.scheduled_time = Val(scheduled_time)] ELSE appt
        a2 == IF status # None THEN [a1 EXCEPT !.status = Val(status)] ELSE a1
        a3 == IF notes # None THEN [a2 EXCEPT !.notes = notes] ELSE a2
    IN  IF slot # "ok" THEN [detail |-> slot, row |-> appt]
        ELSE IF status # None /\ Val(status) \notin AppointmentStatus
             THEN [detail |-> InvalidStatus, row |-> appt]
        ELSE [detail |-> "ok", row |-> a3]

\* variant: the new doctor id written to the patient_id column
crud_reassign_appointment_swapped(appt, new_doctor_id, new_hospital_id) ==
    LET a1 == [appt EXCEPT !.patient_id = new_doctor_id]
    IN  IF new_hospital_id # None THEN [a1 EXCEPT !.hospital_id = new_hospital_id] ELSE a1

\* variant: hospital_id overwritten also when no new hospital id is given
crud_reassign_appointment_hospital(appt, new_doctor_id, new_hospital_id) ==
    [appt EXCEPT !.doctor_id = new_doctor_id, !.hospital_id = new_hospital_id]

\* crud.reassign_appointment
crud_reassign_appointment(appt, new_doctor_id, new_hospital_id) ==
    LET a1 == [appt EXCEPT !.doctor_id = new_doctor_id]
    IN  IF new_hospital_id # None THEN [a1 EXCEPT !.hospital_id = new_hospital_id] ELSE a1

----------------------------------------------------------------------------
(* Callers: the authenticated user of a request, reduced to its role and   *)
(* the id of its patient or doctor profile                                 *)

Callers ==
    [role : {"patient"}, id : Patients] \cup [role : {"doctor"}, id : Doctors]
        \cup {[role |-> "admin", id |-> 0]}

UNCHANGED_tokens == UNCHANGED <<refresh_tokens, now, issued, req, patients, cipher>>

----------------------------------------------------------------------------
(* routers: one action per endpoint, the whole handler in one step *)

\* POST /admin/doctors/{doctor_id}/availability
add_availability(caller, doctor_id, day_of_week, start_time, end_time) ==
    /\ UNCHANGED_tokens
    /\ UNCHANGED appointments
    /\ IF caller.role # "admin"
       THEN /\ response' = Err("add_availability", 403, "Not enough permissions")
            /\ UNCHANGED availabilities
       ELSE /\ Len(availabilities) < MaxAvail
            /\ availabilities' = Append(availabilities,
                   [doctor_id |-> doctor_id, day_of_week |-> day_of_week,
                    start_time |-> start_time, end_time |-> end_time])
            /\ response' = Ok("add_availability")

\* POST /appointments
create_appointment(caller, doctor_id, hospital_id, scheduled_time) ==
    /\ UNCHANGED_tokens
    /\ UNCHANGED availabilities
    /\ IF caller.role # "patient"
       THEN /\ response' = Err("create", 403, "Not enough permissions")
            /\ UNCHANGED appointments
       ELSE LET detail == validate_appointment_slot(appointments, availabilities,
                              doctor_id, caller.id, scheduled_time, None)
            IN  IF detail # "ok"
                THEN /\ response' = Err("create", 400, detail)
                     /\ UNCHANGED appointments
                ELSE /\ Len(appointments) < MaxAppts
                     /\ appointments' = Append(appointments,
                            new_appointment(caller.id, doctor_id, hospital_id, scheduled_time))
                     /\ response' = Ok("create")

\* the handler of PATCH /appointments/{appt_id} with the checks named in skipped left out
update_appointment_outcome_skipping(skipped, appts, avails, caller, appt_id, scheduled_time,
                                    status, notes) ==
    IF appt_id \notin 1..Len(appts)
    THEN [response |-> Err("update", 404, "Not found"), appointments |-> appts]
    ELSE LET appt == appts[appt_id]
             r == crud_update_appointment(appts, avails, appt_id, scheduled_time, status, notes)
         IN  IF /\ "patient owner" \notin skipped
                /\ caller.role = "patient" /\ appt.patient_id # caller.id
             THEN [response |-> Err("update", 403, "Forbidden"), appointments |-> appts]
             ELSE IF /\ "patient status" \notin skipped
                     /\ caller.role = "patient"
                     /\ status # None /\ Val(status) # ""
                     /\ Val(status) # CANCELLED
             THEN [response |-> Err("update", 400, "Invalid status change"),
                   appointments |-> appts]
             ELSE IF /\ "doctor owner" \notin skipped
                     /\ caller.role = "doctor" /\ appt.doctor_id # caller.id
             THEN [response |-> Err("update", 403, "Forbidden"), appointments |-> appts]
             ELSE IF r.detail # "ok"
             THEN [response |-> Err("update", 400, r.detail), appointments |-> appts]
             ELSE [response |-> Ok("update"),
                   appointments |-> [appts EXCEPT ![appt_id] = r.row]]

\* variant: a doctor may update the appointments of other doctors
update_appointment_outcome_any_doctor(appts, avails, caller, appt_id, scheduled_time, status, notes) ==
    update_appointment_outcome_skipping({"doctor owner"}, appts, avails, caller, appt_id,
                                        scheduled_time, status, notes)

\* variant: a patient may update the appointments of other patients
update_appointment_outcome_any_patient(appts, avails, caller, appt_id, scheduled_time, status, notes) ==
    update_appointment_outcome_skipping({"patient owner"}, appts, avails, caller, appt_id,
                                        scheduled_time, status, notes)

\* PATCH /appointments/{appt_id}: what the handler returns and the appointments table
\* it leaves, for a request of caller on the tables appts and avails
update_appointment_outcome(appts, avails, caller, appt_id, scheduled_time, status, notes) ==
    IF appt_id \notin 1..Len(appts)
    THEN [response |-> Err("update", 404, "Not found"), appointments |-> appts]
    ELSE LET appt == appts[appt_id]
             r == crud_update_appointment(appts, avails, appt_id, scheduled_time, status, notes)
         IN  IF caller.role = "patient" /\ appt.patient_id # caller.id
             THEN [response |-> Err("update", 403, "Forbidden"), appointments |-> appts]
             ELSE IF /\ caller.role = "patient"
                     /\ status # None /\ Val(status) # ""
                     /\ Val(status) # CANCELLED
             THEN [response |-> Err("update", 400, "Invalid status change"),
                   appointments |-> appts]
             ELSE IF caller.role = "doctor" /\ appt.doctor_id # caller.id
             THEN [response |-> Err("update", 403, "Forbidden"), appointments |-> appts]
             ELSE IF r.detail # "ok"
             THEN [response |-> Err("update", 400, r.detail),
                   appointments |-> [appts EXCEPT ![appt_id] = r.row]]
             ELSE [response |-> Ok("update"),
                   appointments |-> [appts EXCEPT ![appt_id] = r.row]]

\* PATCH /appointments/{appt_id}
update_appointment(caller, appt_id, scheduled_time, status, notes) ==
    /\ UNCHANGED_tokens
    /\ UNCHANGED availabilities
    /\ LET out == update_appointment_outcome(appointments, availabilities, caller, appt_id,
                                             scheduled_time, status, notes)
       IN  /\ response' = out.response
           /\ appointments' = out.appointments

\* POST /admin/appointments/{appt_id}/reassign
reassign_appointment(caller, appt_id, new_doctor_id, new_hospital_id) ==
    /\ UNCHANGED_tokens
    /\ UNCHANGED availabilities
    /\ IF caller.role # "admin"
       THEN /\ response' = Err("reassign", 403, "Not enough permissions")
            /\ UNCHANGED appointments
       ELSE IF appt_id \notin 1..Len(appointments)
       THEN /\ response' = Err("reassign", 404, "Not found")
            /\ UNCHANGED appointments
       ELSE /\ appointments' = [appointments EXCEPT ![appt_id] =
                   crud_reassign_appointment(appointments[appt_id], new_doctor_id, new_hospital_id)]
            /\ response' = Ok("reassign")

\* PATCH /appointments/{appt_id}/doctor-note
update_doctor_note(caller, appt_id, note) ==
    /\ UNCHANGED_tokens
    /\ UNCHANGED availabilities
    /\ IF appt_id \notin 1..Len(appointments)
       THEN /\ response' = Err("doctor_note", 404, "Not found")
            /\ UNCHANGED appointments
       ELSE IF caller.role # "doctor" \/ caller.id # appointments[appt_id].doctor_id
       THEN /\ response' = Err("doctor_note", 403, "Forbidden")
            /\ UNCHANGED appointments
       ELSE /\ appointments' = [appointments EXCEPT ![appt_id].notes = Some(note)]
            /\ response' = Ok("doctor_note")

----------------------------------------------------------------------------
(* The sequential specification of the appointment endpoints: requests are  *)
(* served one at a time, each handler runs to completion.  The admin gives  *)
(* doctor 1, then doctor 2, the Monday window 09:00-10:30; patients book    *)
(* at hospital 1; status changes are cancellations; notes are written to    *)
(* appointment 1; updates come from the callers the endpoint admits.        *)

\* "09:00" and "10:30" as Python strings
T0900 == <<48, 57, 58, 48, 48>>
T1030 == <<49, 48, 58, 51, 48>>

\* scheduled_time inputs: Monday 09:01, 09:30 and 10:00 lie in the window 09:00-10:30
\* (29, 30 and 59 minutes apart); Monday 10:30 and Tuesday 09:30 lie outside it
SlotTimes == {541, 570, 600}
OffTimes == {630, 2010}
TimeInputs == SlotTimes \cup OffTimes

Init ==
    /\ appointments = <<>>
    /\ availabilities = <<>>
    /\ refresh_tokens = <<>>
    /\ now = 0
    /\ issued = {}
    /\ patients = <<>>
    /\ cipher = IdleCipher
    /\ response = Ok("start")
    /\ req = <<>>

AddAvailability ==
    \E c \in Callers, d \in Doctors :
        /\ c.role = "admin"
        /\ d = Len(availabilities) + 1
        /\ add_availability(c, d, 0, T0900, T1030)

CreateAppointment ==
    \E c \in Callers, d \in Doctors, t \in TimeInputs :
        /\ c.role = "patient"
        /\ create_appointment(c, d, Some(1), t)

\* the callers the update endpoint does not turn away: the patient and the doctor of
\* the appointment, and the admin
Authorized(id) ==
    {c \in Callers :
        /\ c.role = "patient" => c.id = appointments[id].patient_id
        /\ c.role = "doctor" => c.id = appointments[id].doctor_id}

UpdateAppointment ==
    \E id \in 1..Len(appointments) :
        \E c \in Authorized(id), t \in {None} \cup {Some(x) : x \in TimeInputs},
           s \in {None, Some(CANCELLED)}, n \in {None, Some("n")} :
            /\ n # None => id = 1
            /\ update_appointment(c, id, t, s, n)

ReassignAppointment ==
    \E id \in 1..Len(appointments), d \in Doctors, h \in {None, Some(1)} :
        reassign_appointment([role |-> "admin", id |-> 0], id, d, h)

UpdateDoctorNote ==
    \E c \in Callers :
        /\ Len(appointments) >= 1
        /\ c \in Authorized(1)
        /\ update_doctor_note(c, 1, "n")

Next ==
    \/ AddAvailability
    \/ CreateAppointment
    \/ UpdateAppointment
    \/ ReassignAppointment
    \/ UpdateDoctorNote

Spec == Init /\ [][Next]_vars

----------------------------------------------------------------------------
(* Reference notions used by the properties, stated on numbers *)

\* minutes of the day written by a well-formed "HH:MM" string
MinutesOf(hm) == (hm[1] - 48) * 600 + (hm[2] - 48) * 60 + (hm[4] - 48) * 10 + (hm[5] - 48)

\* doctor d has a stored window that contains t, compared as minutes of the day
InsideAvailability(d, t) ==
    \E i \in 1..Len(availabilities) :
        /\ availabilities[i].doctor_id = d
        /\ availabilities[i].day_of_week = (t \div 1440) % 7
        /\ MinutesOf(availabilities[i].start_time) <= t % 1440
        /\ t % 1440 < MinutesOf(availabilities[i].end_time)

\* distance in minutes between a time and a stored appointment
Apart(t, i) == Abs(t - appointments[i].scheduled_time)

PatientCallers == [role : {"patient"}, id : Patients]
BookingOk == response.op = "create" /\ response.code = 200

----------------------------------------------------------------------------
(* C1 *)

\* C1 (as stated): in every reachable state no two distinct appointments of the same
\* doctor have scheduled times within 29 minutes of each other, whatever their status.
C1_NoDoctorOverlap ==
    \A i, j \in 1..Len(appointments) :
        (i # j /\ appointments[i].doctor_id = appointments[j].doctor_id)
            => Apart(appointments[i].scheduled_time, j) > 29

\* C1 (amended): every booking, update and doctor-note operation preserves the
\* separation: if before the operation no two appointments of one doctor are within
\* 29 minutes, none are after it.  Only admin reassign can break it.
C1_DoctorSlotPreserved ==
    [][(C1_NoDoctorOverlap /\ response'.op # "reassign") => C1_NoDoctorOverlap']_vars

\* two appointments of one doctor exactly 30 minutes apart, the second just booked
C1_Witness ==
    /\ BookingOk
    /\ Len(appointments) = 2
    /\ appointments[1].doctor_id = appointments[2].doctor_id
    /\ Apart(appointments[1].scheduled_time, 2) = 30
    /\ C1_NoDoctorOverlap

----------------------------------------------------------------------------
(* C2 *)

\* C2: in every reachable state no two distinct appointments of the same patient have
\* scheduled times within 29 minutes of each other, whatever their status.
C2_NoPatientOverlap ==
    \A i, j \in 1..Len(appointments) :
        (i # j /\ appointments[i].patient_id = appointments[j].patient_id)
            => Apart(appointments[i].scheduled_time, j) > 29

\* one patient holds two appointments 30 minutes apart, one cancelled, one moved to
\* another doctor by the admin
C2_Witness ==
    /\ response.op = "reassign" /\ response.code = 200
    /\ Len(appointments) = 2
    /\ appointments[1].patient_id = appointments[2].patient_id
    /\ Apart(appointments[1].scheduled_time, 2) = 30
    /\ appointments[1].status = CANCELLED

----------------------------------------------------------------------------
(* C8 *)

\* patient p holds no appointment within 29 minutes of t
PatientFree(p, t) ==
    \A k \in 1..Len(appointments) : appointments[k].patient_id = p => Apart(t, k) >= 30

\* doctor d holds no appointment within 29 minutes of t
DoctorFree(d, t) ==
    \A k \in 1..Len(appointments) : appointments[k].doctor_id = d => Apart(t, k) >= 30

\* the booking was turned down with this reason and stored nothing
Rejected(reason) ==
    /\ response' = [op |-> "create", code |-> 400, detail |-> reason]
    /\ appointments' = appointments

\* the booking stored one pending appointment with these values
Accepted(p, d, t) ==
    /\ response' = [op |-> "create", code |-> 200, detail |-> "ok"]
    /\ Len(appointments') = Len(appointments) + 1
    /\ appointments'[Len(appointments')].patient_id = p
    /\ appointments'[Len(appointments')].doctor_id = d
    /\ appointments'[Len(appointments')].scheduled_time = t
    /\ appointments'[Len(appointments')].status = "pending"

\* C8 (as stated): given an appointment of doctor d at time T, a booking for d inside
\* d's availability by a patient with no appointment near the requested time t is
\* rejected with the doctor-slot reason when |t - T| <= 29 and accepted when
\* |t - T| >= 30.
C8_BoundaryAsStated ==
    [][\A c \in PatientCallers, d \in Doctors, t \in TimeInputs, i \in 1..Len(appointments) :
          ( /\ response'.op = "create"
            /\ appointments[i].doctor_id = d
            /\ InsideAvailability(d, t)
            /\ PatientFree(c.id, t)
            /\ create_appointment(c, d, Some(1), t) )
          => IF Apart(t, i) <= 29
             THEN Rejected("Doctor has another appointment in that slot")
             ELSE Accepted(c.id, d, t)]_vars

\* C8 (amended): the booking is rejected with the doctor-slot reason when |t - T| <= 29,
\* and accepted when t is 30 minutes or more away from T and from every other
\* appointment of d.
C8_Boundary ==
    [][\A c \in PatientCallers, d \in Doctors, t \in TimeInputs, i \in 1..Len(appointments) :
          ( /\ response'.op = "create"
            /\ appointments[i].doctor_id = d
            /\ InsideAvailability(d, t)
            /\ PatientFree(c.id, t)
            /\ create_appointment(c, d, Some(1), t) )
          => IF Apart(t, i) <= 29
             THEN Rejected("Doctor has another appointment in that slot")
             ELSE DoctorFree(d, t) => Accepted(c.id, d, t)]_vars

\* a doctor holds appointments at T and T + 30, and a booking 29 minutes from one of
\* them by a patient who is free then has just been rejected for the doctor's slot
C8_Witness ==
    /\ response = [op |-> "create", code |-> 400,
                   detail |-> "Doctor has another appointment in that slot"]
    /\ Len(appointments) = 2
    /\ appointments[1].doctor_id = appointments[2].doctor_id
    /\ appointments[1].patient_id = appointments[2].patient_id
    /\ appointments[1].scheduled_time = 570
    /\ appointments[2].scheduled_time = 600

----------------------------------------------------------------------------
(* C9 *)

\* a booking or a reschedule has just passed the conflict detector for doctor d at
\* time t, as appointment id
PassedDetector(id, d, t) ==
    /\ response'.code = 200
    /\ \/ /\ response'.op = "create"
          /\ id = Len(appointments) + 1
          /\ Len(appointments') = id
       \/ /\ response'.op = "update"
          /\ id \in 1..Len(appointments)
          /\ appointments'[id].scheduled_time # appointments[id].scheduled_time
    /\ appointments'[id].doctor_id = d
    /\ appointments'[id].scheduled_time = t

\* C9 (as stated): an appointment that passes the conflict detector for a doctor is at
\* least 58 minutes away from every other appointment of that doctor.
C9_Apart58 ==
    [][\A id \in 1..MaxAppts, d \in Doctors, t \in TimeInputs :
          PassedDetector(id, d, t) =>
              \A k \in 1..Len(appointments) :
                  (k # id /\ appointments[k].doctor_id = d) => Apart(t, k) >= 58]_vars

\* C9 (amended): an appointment that passes the conflict detector for a doctor is at
\* least 30 minutes (more than 29) away from every other appointment of that doctor.
C9_Apart30 ==
    [][\A id \in 1..MaxAppts, d \in Doctors, t \in TimeInputs :
          PassedDetector(id, d, t) =>
              \A k \in 1..Len(appointments) :
                  (k # id /\ appointments[k].doctor_id = d) => Apart(t, k) >= 30]_vars

\* two appointments of one doctor, booked by different patients, 30 minutes apart
C9_Witness ==
    /\ BookingOk
    /\ Len(appointments) = 2
    /\ appointments[1].doctor_id = appointments[2].doctor_id
    /\ appointments[1].patient_id # appointments[2].patient_id
    /\ Apart(appointments[1].scheduled_time, 2) = 30

----------------------------------------------------------------------------
(* C10 *)

\* C10 (as stated): for a patient holding an appointment at time T with doctor d1, a
\* booking with another doctor d, available and free at the requested time t, is
\* rejected with the patient-slot reason when |t - T| <= 29 and accepted when
\* |t - T| >= 30.
C10_PatientBoundaryAsStated ==
    [][\A c \in PatientCallers, d \in Doctors, t \in TimeInputs, i \in 1..Len(appointments) :
          ( /\ response'.op = "create"
            /\ appointments[i].patient_id = c.id
            /\ appointments[i].doctor_id # d
            /\ InsideAvailability(d, t)
            /\ DoctorFree(d, t)
            /\ create_appointment(c, d, Some(1), t) )
          => IF Apart(t, i) <= 29
             THEN Rejected("Patient has another appointment in that slot")
             ELSE Accepted(c.id, d, t)]_vars

\* C10 (amended): the booking is rejected with the patient-slot reason when
\* |t - T| <= 29, and accepted when t is 30 minutes or more away from T and from every
\* other appointment the patient holds.
C10_PatientBoundary ==
    [][\A c \in PatientCallers, d \in Doctors, t \in TimeInputs, i \in 1..Len(appointments) :
          ( /\ response'.op = "create"
            /\ appointments[i].patient_id = c.id
            /\ appointments[i].doctor_id # d
            /\ InsideAvailability(d, t)
            /\ DoctorFree(d, t)
            /\ create_appointment(c, d, Some(1), t) )
          => IF Apart(t, i) <= 29
             THEN Rejected("Patient has another appointment in that slot")
             ELSE PatientFree(c.id, t) => Accepted(c.id, d, t)]_vars

\* a patient holds an appointment with one doctor, and a booking of that patient with
\* the other doctor 29 minutes away has just been rejected for the patient's slot
C10_Witness ==
    /\ response = [op |-> "create", code |-> 400,
                   detail |-> "Patient has another appointment in that slot"]
    /\ Len(appointments) = 1
    /\ Len(availabilities) = 2
    /\ appointments[1].scheduled_time = 570

----------------------------------------------------------------------------
(* security: tokens.  A token is its claims and the secret that signed it. *)
(* The role claim is a function of the user and is left out; an access     *)
(* token carries no jti (0 here).                                          *)

\* security.create_access_token at time t
create_access_token(sub, t) ==
    [type |-> "access", sub |-> sub, jti |-> 0,
     exp |-> t + ACCESS_TOKEN_EXPIRE_MINUTES, key |-> "JWT_SECRET_KEY"]

\* security.create_refresh_token at time t, with the jti uuid4 drew
create_refresh_token(sub, jti, t) ==
    [type |-> "refresh", sub |-> sub, jti |-> jti,
     exp |-> t + REFRESH_TOKEN_EXPIRE_MINUTES, key |-> "JWT_REFRESH_SECRET_KEY"]

\* variant: the claims read without verifying the signature or the exp claim
decode_token_unverified(token, refresh, t) == Some(token)

\* security.decode_token at time t: the claims, or None on a bad signature or a
\* passed exp
decode_token(token, refresh, t) ==
    LET secret == IF refresh THEN "JWT_REFRESH_SECRET_KEY" ELSE "JWT_SECRET_KEY"
    IN  IF token.key = secret /\ ~(token.exp < t) THEN Some(token) ELSE None

\* variant: the revoked flag not looked at
validate_refresh_token_any(tokens, jti, user_id, t) ==
    \E i \in 1..Len(tokens) :
        /\ tokens[i].jti = jti
        /\ tokens[i].user_id = user_id
        /\ ~(tokens[i].expires_at < t)

\* variant: expires_at of the record not looked at
validate_refresh_token_no_expiry(tokens, jti, user_id, t) ==
    \E i \in 1..Len(tokens) :
        /\ tokens[i].jti = jti
        /\ tokens[i].user_id = user_id
        /\ ~tokens[i].revoked

\* variant: the record looked up by jti alone, whoever owns it
validate_refresh_token_any_user(tokens, jti, user_id, t) ==
    \E i \in 1..Len(tokens) :
        /\ tokens[i].jti = jti
        /\ ~tokens[i].revoked
        /\ ~(tokens[i].expires_at < t)

\* crud.validate_refresh_token at time t
validate_refresh_token(tokens, jti, user_id, t) ==
    \E i \in 1..Len(tokens) :
        /\ tokens[i].jti = jti
        /\ tokens[i].user_id = user_id
        /\ ~tokens[i].revoked
        /\ ~(tokens[i].expires_at < t)

\* variant: the revoked flag of the record is flipped
revoke_refresh_token_toggle(tokens, jti) ==
    [i \in 1..Len(tokens) |->
        IF tokens[i].jti = jti
        THEN [tokens[i] EXCEPT !.revoked = ~tokens[i].revoked] ELSE tokens[i]]

\* variant: every record of the user who owns jti is revoked
revoke_refresh_token_all_of_user(tokens, jti) ==
    [i \in 1..Len(tokens) |->
        IF \E k \in 1..Len(tokens) : tokens[k].jti = jti /\ tokens[k].user_id = tokens[i].user_id
        THEN [tokens[i] EXCEPT !.revoked = TRUE] ELSE tokens[i]]

\* crud.revoke_refresh_token: the table afterwards
revoke_refresh_token(tokens, jti) ==
    [i \in 1..Len(tokens) |->
        IF tokens[i].jti = jti /\ ~tokens[i].revoked
        THEN [tokens[i] EXCEPT !.revoked = TRUE] ELSE tokens[i]]

\* variant: storing a record clears the revoked flag of the records before it
create_refresh_token_record_reactivating(tokens, user_id, jti, expires_at) ==
    Append([i \in 1..Len(tokens) |-> [tokens[i] EXCEPT !.revoked = FALSE]],
           [user_id |-> user_id, jti |-> jti, expires_at |-> expires_at, revoked |-> FALSE])

\* variant: the new record is stored with the revoked flag set
create_refresh_token_record_revoked(tokens, user_id, jti, expires_at) ==
    Append(tokens, [user_id |-> user_id, jti |-> jti, expires_at |-> expires_at,
                    revoked |-> TRUE])

\* crud.create_refresh_token_record: the table afterwards
create_refresh_token_record(tokens, user_id, jti, expires_at) ==
    Append(tokens, [user_id |-> user_id, jti |-> jti, expires_at |-> expires_at,
                    revoked |-> FALSE])

\* uuid.uuid4(): an identifier no record and no request in flight carries
uuid4 ==
    LET used == {refresh_tokens[i].jti : i \in 1..Len(refresh_tokens)}
                    \cup {req[p].new_jti : p \in DOMAIN req} \cup {0}
    IN  CHOOSE j \in 1..(Cardinality(used) + 1) : j \notin used

UNCHANGED_appointments == UNCHANGED <<appointments, availabilities, patients, cipher>>

\* POST /auth/login; authenticated says whether crud.authenticate_user found the user
login(user_id, authenticated) ==
    /\ UNCHANGED_appointments
    /\ UNCHANGED <<now, req>>
    /\ IF ~authenticated
       THEN /\ response' = Err("login", 401, "Invalid credentials")
            /\ UNCHANGED <<refresh_tokens, issued>>
       ELSE LET jti == uuid4
            IN  /\ Len(refresh_tokens) < MaxTokens
                /\ refresh_tokens' = create_refresh_token_record(refresh_tokens, user_id, jti,
                                         now + REFRESH_TOKEN_EXPIRE_MINUTES)
                /\ issued' = issued \cup {create_access_token(user_id, now),
                                          create_refresh_token(user_id, jti, now)}
                /\ response' = Ok("login")

\* POST /auth/refresh, the whole handler without interruption
auth_refresh(token) ==
    /\ UNCHANGED_appointments
    /\ UNCHANGED <<now, req>>
    /\ LET payload == decode_token(token, TRUE, now)
       IN  IF payload = None \/ Val(payload).type # "refresh"
           THEN /\ response' = Err("refresh", 401, "Invalid refresh token")
                /\ UNCHANGED <<refresh_tokens, issued>>
           ELSE LET user_id == Val(payload).sub
                    jti == Val(payload).jti
                    new_jti == uuid4
                IN  IF \/ user_id \notin Users
                       \/ jti = 0
                       \/ ~validate_refresh_token(refresh_tokens, jti, user_id, now)
                    THEN /\ response' = Err("refresh", 401, "Token invalid or revoked")
                         /\ UNCHANGED <<refresh_tokens, issued>>
                    ELSE /\ Len(refresh_tokens) < MaxTokens
                         /\ refresh_tokens' = create_refresh_token_record(
                                revoke_refresh_token(refresh_tokens, jti), user_id, new_jti,
                                now + REFRESH_TOKEN_EXPIRE_MINUTES)
                         /\ issued' = issued \cup {create_access_token(user_id, now),
                                                   create_refresh_token(user_id, new_jti, now)}
                         /\ response' = Ok("refresh")

\* time passes
tick(minutes) ==
    /\ now' = now + minutes
    /\ UNCHANGED <<appointments, availabilities, refresh_tokens, issued, response, req, patients, cipher>>

----------------------------------------------------------------------------
(* The sequential specification of the token endpoints.  The clock moves   *)
(* in steps of half the refresh lifetime.                                  *)

TickMinutes == REFRESH_TOKEN_EXPIRE_MINUTES \div 2

\* a token no secret of the server signed
Forged == [type |-> "refresh", sub |-> 1, jti |-> 1, exp |-> 0, key |-> "forged"]

Login == \E u \in Users, ok \in BOOLEAN : login(u, ok)

Refresh == \E token \in issued \cup {Forged} : auth_refresh(token)

Tick == now < MaxTicks * TickMinutes /\ tick(TickMinutes)

NextToken == Login \/ Refresh \/ Tick

SpecToken == Init /\ [][NextToken]_vars

----------------------------------------------------------------------------
(* C6 *)

\* the row of refresh_tokens that carries jti
RecordOf(jti) == CHOOSE i \in 1..Len(refresh_tokens) : refresh_tokens[i].jti = jti

\* the refresh was turned down and changed nothing
RefreshFailed ==
    /\ response'.op = "refresh" /\ response'.code = 401
    /\ refresh_tokens' = refresh_tokens
    /\ issued' = issued

\* the refresh revoked row i, stored one new un-revoked row under a jti no row had,
\* and handed out a refresh token carrying that jti
RefreshRotated(i) ==
    /\ response'.op = "refresh" /\ response'.code = 200
    /\ Len(refresh_tokens') = Len(refresh_tokens) + 1
    /\ refresh_tokens'[i].revoked
    /\ ~refresh_tokens'[Len(refresh_tokens')].revoked
    /\ \A k \in 1..Len(refresh_tokens) :
           refresh_tokens[k].jti # refresh_tokens'[Len(refresh_tokens')].jti
    /\ \E t \in issued' \ issued :
           /\ t.type = "refresh"
           /\ t.jti = refresh_tokens'[Len(refresh_tokens')].jti

\* C6: in a sequential run a refresh presenting an issued refresh token fails when the
\* record of its jti is already revoked (the token was rotated before) and succeeds when
\* the record is not revoked and the token has not expired (its first use), revoking
\* that record and issuing one successor; a revoked record stays revoked.  So each jti
\* is rotated at most once and the successor is accepted exactly once.
C6_RotateOnce ==
    [][/\ \A token \in issued :
              ( /\ response'.op = "refresh"
                /\ token.type = "refresh"
                /\ auth_refresh(token) )
              => IF refresh_tokens[RecordOf(token.jti)].revoked THEN RefreshFailed
                 ELSE IF now <= token.exp THEN RefreshRotated(RecordOf(token.jti))
                 ELSE RefreshFailed
       /\ \A i \in 1..Len(refresh_tokens) :
              refresh_tokens[i].revoked => refresh_tokens'[i].revoked]_vars

\* login, two rotations in a row, then a replay of a rotated token is turned down
C6_Witness ==
    /\ response = [op |-> "refresh", code |-> 401, detail |-> "Token invalid or revoked"]
    /\ now = 0
    /\ Len(refresh_tokens) = 3
    /\ refresh_tokens[1].revoked
    /\ refresh_tokens[2].revoked
    /\ ~refresh_tokens[3].revoked

----------------------------------------------------------------------------
(* Two refresh requests in flight.  Each statement that commits is a step: *)
(* the reads up to validate_refresh_token, revoke_refresh_token, and       *)
(* create_refresh_token_record.  A request may stop between its steps.     *)

Procs == {1, 2}

IdleRefresh == [pc |-> "idle", token |-> Forged, user_id |-> 0, jti |-> 0, new_jti |-> 0, code |-> 0]

\* routers.refresh_tokens up to the validation
refresh_validate(p, token) ==
    /\ req[p].pc = "idle"
    /\ UNCHANGED_appointments
    /\ UNCHANGED <<now, refresh_tokens, issued>>
    /\ LET payload == decode_token(token, TRUE, now)
       IN  IF payload = None \/ Val(payload).type # "refresh"
           THEN /\ req' = [req EXCEPT ![p] = [@ EXCEPT !.pc = "done", !.token = token, !.code = 401]]
                /\ response' = Err("refresh", 401, "Invalid refresh token")
           ELSE IF \/ Val(payload).sub \notin Users
                   \/ Val(payload).jti = 0
                   \/ ~validate_refresh_token(refresh_tokens, Val(payload).jti, Val(payload).sub, now)
           THEN /\ req' = [req EXCEPT ![p] = [@ EXCEPT !.pc = "done", !.token = token, !.code = 401]]
                /\ response' = Err("refresh", 401, "Token invalid or revoked")
           ELSE /\ req' = [req EXCEPT ![p] = [@ EXCEPT !.pc = "revoke", !.token = token,
                               !.user_id = Val(payload).sub, !.jti = Val(payload).jti]]
                /\ UNCHANGED response

\* routers.refresh_tokens: crud.revoke_refresh_token(db, jti)
refresh_revoke(p) ==
    /\ req[p].pc = "revoke"
    /\ UNCHANGED_appointments
    /\ UNCHANGED <<now, issued, response>>
    /\ refresh_tokens' = revoke_refresh_token(refresh_tokens, req[p].jti)
    /\ req' = [req EXCEPT ![p].pc = "issue"]

\* routers.refresh_tokens: the new pair and crud.create_refresh_token_record
refresh_issue(p) ==
    /\ req[p].pc = "issue"
    /\ UNCHANGED_appointments
    /\ UNCHANGED now
    /\ Len(refresh_tokens) < MaxTokens
    /\ LET new_jti == uuid4
       IN  /\ refresh_tokens' = create_refresh_token_record(refresh_tokens, req[p].user_id,
                                    new_jti, now + REFRESH_TOKEN_EXPIRE_MINUTES)
           /\ issued' = issued \cup {create_access_token(req[p].user_id, now),
                                     create_refresh_token(req[p].user_id, new_jti, now)}
           /\ req' = [req EXCEPT ![p] = [@ EXCEPT !.pc = "done", !.new_jti = new_jti, !.code = 200]]
           /\ response' = Ok("refresh")

\* the request stops between two statements (the process dies, the connection drops)
refresh_stop(p) ==
    /\ req[p].pc \in {"revoke", "issue"}
    /\ req' = [req EXCEPT ![p].pc = "stopped"]
    /\ UNCHANGED <<appointments, availabilities, refresh_tokens, now, issued, response, patients, cipher>>

InitRefresh ==
    /\ appointments = <<>>
    /\ availabilities = <<>>
    /\ refresh_tokens = <<>>
    /\ now = 0
    /\ issued = {}
    /\ patients = <<>>
    /\ cipher = IdleCipher
    /\ response = Ok("start")
    /\ req = [p \in Procs |-> IdleRefresh]

RLogin == \E u \in Users : login(u, TRUE)
RValidate == \E p \in Procs, token \in issued \cup {Forged} : refresh_validate(p, token)
RRevoke == \E p \in Procs : refresh_revoke(p)
RIssue == \E p \in Procs : refresh_issue(p)
RStop == \E p \in Procs : refresh_stop(p)

NextRefresh == RLogin \/ RValidate \/ RRevoke \/ RIssue \/ RStop

SpecRefresh == InitRefresh /\ [][NextRefresh]_vars

----------------------------------------------------------------------------
(* C4 *)

\* C4: of two refresh requests that present the same refresh token at most one returns
\* a new pair.
C4_OneRotationPerToken ==
    \A p, q \in Procs :
        (p # q /\ req[p].token = req[q].token /\ req[p].pc = "done" /\ req[q].pc = "done")
            => ~(req[p].code = 200 /\ req[q].code = 200)

----------------------------------------------------------------------------
(* C5 *)

\* the records persisted by the requests that presented jti
Successors(jti) ==
    {req[q].new_jti : q \in {q \in Procs : req[q].jti = jti /\ req[q].new_jti # 0}}

\* C5: once every request that presented a token has ended, by returning or by stopping
\* between its steps, the store does not hold the presented record revoked without a
\* successor record, nor two un-revoked successor records of it.
C5_RotationAtomic ==
    \A p \in Procs :
        ( /\ req[p].jti # 0
          /\ \A q \in Procs : req[q].jti = req[p].jti => req[q].pc \in {"done", "stopped"} )
        => /\ refresh_tokens[RecordOf(req[p].jti)].revoked => Successors(req[p].jti) # {}
           /\ Cardinality({j \in Successors(req[p].jti) :
                              ~refresh_tokens[RecordOf(j)].revoked}) <= 1

----------------------------------------------------------------------------
(* Two booking requests in flight.  Each SELECT of _validate_appointment_slot *)
(* and the INSERT with its commit is a step; every statement reads the     *)
(* committed table.                                                        *)

IdleBooking ==
    [pc |-> "idle", patient_id |-> 0, doctor_id |-> 0, hospital_id |-> None,
     scheduled_time |-> 0, code |-> 0, detail |-> ""]

BookingFailed(r, detail) == [r EXCEPT !.pc = "done", !.code = 400, !.detail = detail]

\* routers.create_appointment up to the availability query of _validate_appointment_slot
booking_availability(p, caller, doctor_id, hospital_id, scheduled_time) ==
    /\ req[p].pc = "idle"
    /\ caller.role = "patient"
    /\ UNCHANGED <<appointments, availabilities, refresh_tokens, now, issued, patients, cipher>>
    /\ LET r == [req[p] EXCEPT !.patient_id = caller.id, !.doctor_id = doctor_id,
                     !.hospital_id = hospital_id, !.scheduled_time = scheduled_time]
       IN  IF ~available(availabilities, doctor_id, scheduled_time)
           THEN /\ req' = [req EXCEPT ![p] = BookingFailed(r, DoctorUnavailable)]
                /\ response' = Err("create", 400, DoctorUnavailable)
           ELSE /\ req' = [req EXCEPT ![p] = [r EXCEPT !.pc = "doctor"]]
                /\ UNCHANGED response

\* _validate_appointment_slot: the doctor-slot query
booking_doctor_slot(p) ==
    /\ req[p].pc = "doctor"
    /\ UNCHANGED <<appointments, availabilities, refresh_tokens, now, issued, patients, cipher>>
    /\ IF doctor_conflict(appointments, req[p].doctor_id, req[p].scheduled_time, None)
       THEN /\ req' = [req EXCEPT ![p] = BookingFailed(@, DoctorSlotConflict)]
            /\ response' = Err("create", 400, DoctorSlotConflict)
       ELSE /\ req' = [req EXCEPT ![p].pc = "patient"]
            /\ UNCHANGED response

\* _validate_appointment_slot: the patient-slot query
booking_patient_slot(p) ==
    /\ req[p].pc = "patient"
    /\ UNCHANGED <<appointments, availabilities, refresh_tokens, now, issued, patients, cipher>>
    /\ IF patient_conflict(appointments, req[p].patient_id, req[p].scheduled_time, None)
       THEN /\ req' = [req EXCEPT ![p] = BookingFailed(@, PatientSlotConflict)]
            /\ response' = Err("create", 400, PatientSlotConflict)
       ELSE /\ req' = [req EXCEPT ![p].pc = "insert"]
            /\ UNCHANGED response

\* crud.create_appointment: db.add(appt), db.commit()
booking_insert(p) ==
    /\ req[p].pc = "insert"
    /\ Len(appointments) < MaxAppts
    /\ UNCHANGED <<availabilities, refresh_tokens, now, issued, patients, cipher>>
    /\ appointments' = Append(appointments,
           new_appointment(req[p].patient_id, req[p].doctor_id, req[p].hospital_id,
                           req[p].scheduled_time))
    /\ req' = [req EXCEPT ![p] = [@ EXCEPT !.pc = "done", !.code = 200, !.detail = "ok"]]
    /\ response' = Ok("create")

InitBooking ==
    /\ appointments = <<>>
    /\ availabilities = <<>>
    /\ refresh_tokens = <<>>
    /\ now = 0
    /\ issued = {}
    /\ patients = <<>>
    /\ cipher = IdleCipher
    /\ response = Ok("start")
    /\ req = [p \in Procs |-> IdleBooking]

BAvailability ==
    \E p \in Procs, c \in PatientCallers, d \in Doctors, t \in TimeInputs :
        booking_availability(p, c, d, Some(1), t)
BDoctorSlot == \E p \in Procs : booking_doctor_slot(p)
BPatientSlot == \E p \in Procs : booking_patient_slot(p)
BInsert == \E p \in Procs : booking_insert(p)

NextBooking == AddAvailability \/ BAvailability \/ BDoctorSlot \/ BPatientSlot \/ BInsert

SpecBooking == InitBooking /\ [][NextBooking]_vars

----------------------------------------------------------------------------
(* C3 *)

\* C3: of two booking requests for the same doctor, or by the same patient, with times
\* within 29 minutes of each other, at most one commits an appointment.
C3_OneBookingPerSlot ==
    \A p, q \in Procs :
        ( /\ p # q
          /\ req[p].pc = "done" /\ req[q].pc = "done"
          /\ req[p].doctor_id = req[q].doctor_id \/ req[p].patient_id = req[q].patient_id
          /\ Abs(req[p].scheduled_time - req[q].scheduled_time) <= 29 )
        => ~(req[p].code = 200 /\ req[q].code = 200)

----------------------------------------------------------------------------
(* The lifecycle specification: one appointment, every caller, every       *)
(* status value, notes and hospitals, requests served one at a time.       *)

StatusInputs ==
    {None, Some(""), Some(PENDING), Some(APPROVED), Some(REJECTED), Some(CANCELLED), Some("bogus")}

LcCreate ==
    \E c \in Callers, d \in Doctors, h \in {None, Some(1)}, t \in {570, 630} :
        /\ Len(appointments) < LcMaxAppts
        /\ create_appointment(c, d, h, t)

LcUpdate ==
    \E c \in Callers, id \in 1..MaxAppts, t \in {None, Some(570), Some(600), Some(630)},
       s \in StatusInputs, n \in {None, Some("n")} :
        update_appointment(c, id, t, s, n)

LcReassign ==
    \E c \in Callers, id \in 1..MaxAppts, d \in Doctors, h \in {None, Some(1)} :
        reassign_appointment(c, id, d, h)

LcDoctorNote ==
    \E c \in Callers, id \in 1..MaxAppts :
        update_doctor_note(c, id, "n")

NextLifecycle == AddAvailability \/ LcCreate \/ LcUpdate \/ LcReassign \/ LcDoctorNote

SpecLifecycle == Init /\ [][NextLifecycle]_vars

----------------------------------------------------------------------------
(* C7 *)

\* C7: every status change committed to an appointment is pending -> approved,
\* pending -> rejected, pending -> cancelled or approved -> cancelled.
C7_StatusTransitions ==
    [][\A i \in 1..Len(appointments) :
          appointments'[i].status # appointments[i].status
              => <<appointments[i].status, appointments'[i].status>> \in
                    {<<"pending", "approved">>, <<"pending", "rejected">>,
                     <<"pending", "cancelled">>, <<"approved", "cancelled">>}]_vars

----------------------------------------------------------------------------
(* The availability specification: the admin stores windows whose start    *)
(* and end are the strings the request carried (the endpoint stores any    *)
(* str, "9:00" as well as "09:00"); patients book one appointment and it   *)
(* is rescheduled.  All windows are for Monday.                            *)

\* "9:00", "9:30" and "17:00" as Python strings
T900 == <<57, 58, 48, 48>>
T930 == <<57, 58, 51, 48>>
T1700 == <<49, 55, 58, 48, 48>>

StartInputs == {T0900, T900}
EndInputs == {T1030, T930, T1700}

\* scheduled_time inputs: Monday 09:00, 10:00 and 10:30, Tuesday 09:30
WindowTimes == {540, 600, 630, 2010}

WAddAvailability ==
    \E d \in Doctors, s \in StartInputs, e \in EndInputs :
        add_availability([role |-> "admin", id |-> 0], d, 0, s, e)

WCreate ==
    \E c \in Callers, d \in Doctors, t \in WindowTimes :
        /\ c.role = "patient"
        /\ Len(appointments) < LcMaxAppts
        /\ create_appointment(c, d, Some(1), t)

WUpdate ==
    \E c \in Callers, t \in WindowTimes :
        /\ Len(appointments) >= 1
        /\ c \in Authorized(1)
        /\ update_appointment(c, 1, Some(t), None, None)

NextWindows == WAddAvailability \/ WCreate \/ WUpdate

SpecWindows == Init /\ [][NextWindows]_vars

----------------------------------------------------------------------------
(* The numeric reference for a window: its start and end read as a clock   *)
(* time, hours before the colon and minutes after it                       *)

RECURSIVE DigitsValue(_)
\* the number a sequence of decimal digits writes
DigitsValue(s) ==
    IF s = <<>> THEN 0
    ELSE DigitsValue(SubSeq(s, 1, Len(s) - 1)) * 10 + (s[Len(s)] - 48)

\* minutes of the day written by "H:MM" or "HH:MM"
ClockMinutes(hm) ==
    LET k == CHOOSE j \in 1..Len(hm) : hm[j] = 58
    IN  DigitsValue(SubSeq(hm, 1, k - 1)) * 60 + DigitsValue(SubSeq(hm, k + 1, Len(hm)))

\* doctor d has a stored window for t's weekday with start <= minute-of-day(t) < end
InsideWindow(d, t) ==
    \E i \in 1..Len(availabilities) :
        /\ availabilities[i].doctor_id = d
        /\ availabilities[i].day_of_week = (t \div 1440) % 7
        /\ ClockMinutes(availabilities[i].start_time) <= t % 1440
        /\ t % 1440 < ClockMinutes(availabilities[i].end_time)

----------------------------------------------------------------------------
(* C11 *)

\* C11: for every doctor d and every time t outside every stored window of d for t's
\* weekday, a booking for d at t and a reschedule of an appointment of d to t, by a
\* caller the endpoint admits, are rejected with the doctor-unavailable reason and the
\* appointments are left as they were.
C11_OutsideRejected ==
    [][\A c \in Callers, t \in WindowTimes :
          /\ \A d \in Doctors :
                 ( /\ response'.op = "create"
                   /\ c.role = "patient"
                   /\ ~InsideWindow(d, t)
                   /\ create_appointment(c, d, Some(1), t) )
                 => /\ response' = Err("create", 400, "Doctor not available at this time")
                    /\ appointments' = appointments
          /\ \A id \in 1..Len(appointments) :
                 ( /\ response'.op = "update"
                   /\ c \in Authorized(id)
                   /\ ~InsideWindow(appointments[id].doctor_id, t)
                   /\ update_appointment(c, id, Some(t), None, None) )
                 => /\ response' = Err("update", 400, "Doctor not available at this time")
                    /\ appointments' = appointments]_vars

----------------------------------------------------------------------------
(* C12 *)

\* C12: for every set of stored windows and every scheduled time, the availability
\* check of the code passes if and only if some window of the doctor for that weekday
\* satisfies start <= minute-of-day(time) < end compared as minutes of the day.
C12_AvailabilityAgrees ==
    \A d \in Doctors, t \in WindowTimes :
        available(availabilities, d, t) <=> InsideWindow(d, t)

----------------------------------------------------------------------------
(* C13 *)

\* no appointment other than id, of the same doctor or of the same patient, lies within
\* 29 minutes of t
OthersClear(id, t) ==
    \A k \in 1..Len(appointments) :
        ( /\ k # id
          /\ \/ appointments[k].doctor_id = appointments[id].doctor_id
             \/ appointments[k].patient_id = appointments[id].patient_id )
        => Apart(t, k) >= 30

\* C13 (as stated): in every reachable state and for every existing appointment, an
\* update whose new scheduled_time equals the current scheduled_time succeeds and leaves
\* the appointment as it is.
C13_NoopAsStated ==
    \A id \in 1..Len(appointments) :
        crud_update_appointment(appointments, availabilities, id,
                                Some(appointments[id].scheduled_time), None, None)
            = [detail |-> "ok", row |-> appointments[id]]

\* C13 (amended): an update whose new scheduled_time equals the current scheduled_time
\* never conflicts with the appointment itself: in every reachable state it succeeds
\* whenever the appointment's doctor is available at that time and no other appointment
\* of that doctor or of that patient lies within 29 minutes of it.
C13_NoopReschedule ==
    \A id \in 1..Len(appointments) :
        ( /\ InsideAvailability(appointments[id].doctor_id, appointments[id].scheduled_time)
          /\ OthersClear(id, appointments[id].scheduled_time) )
        => crud_update_appointment(appointments, availabilities, id,
                                   Some(appointments[id].scheduled_time), None, None)
               = [detail |-> "ok", row |-> appointments[id]]

\* an accepted update has left two appointments of one doctor and one patient exactly
\* 30 minutes apart, none cancelled, no notes written
C13_Witness ==
    /\ response = Ok("update")
    /\ Len(appointments) = 2
    /\ appointments[1].doctor_id = appointments[2].doctor_id
    /\ appointments[1].patient_id = appointments[2].patient_id
    /\ appointments[1].scheduled_time = 600
    /\ appointments[2].scheduled_time = 570
    /\ \A i \in 1..2 : appointments[i].status = PENDING /\ appointments[i].notes = None

----------------------------------------------------------------------------
(* C14 *)

\* the reason the conflict detector gives for moving appointment id to time t, stated
\* on numbers: the first of the three checks that fails, or "ok"
RescheduleVerdict(id, t) ==
    IF ~InsideAvailability(appointments[id].doctor_id, t)
    THEN "Doctor not available at this time"
    ELSE IF \E k \in 1..Len(appointments) :
                /\ k # id
                /\ appointments[k].doctor_id = appointments[id].doctor_id
                /\ Apart(t, k) <= 29
    THEN "Doctor has another appointment in that slot"
    ELSE IF \E k \in 1..Len(appointments) :
                /\ k # id
                /\ appointments[k].patient_id = appointments[id].patient_id
                /\ Apart(t, k) <= 29
    THEN "Patient has another appointment in that slot"
    ELSE "ok"

\* C14: in every reachable state a reschedule of an appointment to a time that fails the
\* availability check, the doctor-slot check or the patient-slot check raises the reason
\* of the first check that fails and commits nothing, also when the request carries a
\* status or notes; and every update request answered with a conflict-detector reason
\* leaves every appointment (scheduled_time, status, notes) as it was.
C14_FailedRescheduleUnmodified ==
    /\ [](\A id \in 1..Len(appointments), t \in TimeInputs,
             s \in {None, Some(CANCELLED)}, n \in {None, Some("n")} :
             RescheduleVerdict(id, t) # "ok"
                 => crud_update_appointment(appointments, availabilities, id, Some(t), s, n)
                        = [detail |-> RescheduleVerdict(id, t), row |-> appointments[id]])
    /\ [][( /\ response'.op = "update"
            /\ response'.detail \in {"Doctor not available at this time",
                                     "Doctor has another appointment in that slot",
                                     "Patient has another appointment in that slot"} )
          => /\ response'.code = 400
             /\ appointments' = appointments]_vars

\* a reschedule has just been rejected for the patient's slot: the patient holds two
\* appointments with different doctors
C14_Witness ==
    /\ response = Err("update", 400, "Patient has another appointment in that slot")
    /\ Len(appointments) = 2
    /\ appointments[1].patient_id = appointments[2].patient_id
    /\ appointments[1].doctor_id # appointments[2].doctor_id

----------------------------------------------------------------------------
(* C15 *)

\* scheduled_time inputs of the lifecycle specification's updates
LcTimes == {None, Some(570), Some(600), Some(630)}

\* the request carries no new time, or one the conflict detector lets through
TimeAdmitted(id, t) == t = None \/ RescheduleVerdict(id, Val(t)) = "ok"

\* C15: in every reachable state an update issued by the patient who owns
\* the appointment is accepted when its status value is cancelled (and its new time, if
\* any, passes the conflict detector) and is rejected with "Invalid status change" for
\* every other status value, the empty string included, leaving the record unchanged.
C15_PatientStatus ==
    \A c \in PatientCallers, id \in 1..Len(appointments), t \in LcTimes,
       s \in StatusInputs \ {None}, n \in {None, Some("n")} :
        c.id = appointments[id].patient_id =>
            LET out == update_appointment_outcome(appointments, availabilities, c, id, t, s, n)
            IN  IF Val(s) = "cancelled"
                THEN TimeAdmitted(id, t)
                         => /\ out.response = Ok("update")
                            /\ out.appointments[id].status = "cancelled"
                ELSE /\ out.response = Err("update", 400, "Invalid status change")
                     /\ out.appointments = appointments

----------------------------------------------------------------------------
(* C16 *)

OwningPatient(c, id) == c.role = "patient" /\ c.id = appointments[id].patient_id
OwningDoctor(c, id) == c.role = "doctor" /\ c.id = appointments[id].doctor_id

\* a status becomes cancelled only in a step that answers an update request with success
CancelledByUpdateOnly ==
    [][\A i \in 1..Len(appointments) :
          (appointments'[i].status = "cancelled" /\ appointments[i].status # "cancelled")
              => response' = Ok("update")]_vars

\* C16 (as stated): an appointment's status becomes cancelled only through an update, and
\* in every reachable state no update issued by a caller other than the owning patient
\* or an admin makes the status cancelled.
C16_CancelAsStated ==
    /\ CancelledByUpdateOnly
    /\ [](\A c \in Callers, id \in 1..Len(appointments), t \in LcTimes,
             s \in StatusInputs, n \in {None, Some("n")} :
             ( /\ ~OwningPatient(c, id)
               /\ c.role # "admin"
               /\ appointments[id].status # "cancelled" )
             => update_appointment_outcome(appointments, availabilities, c, id, t, s, n)
                    .appointments[id].status # "cancelled")

\* C16 (amended): an appointment's status becomes cancelled only through an update, and
\* in every reachable state no update issued by a caller other than the owning patient,
\* the owning doctor or an admin makes the status cancelled.
C16_CancelAuthority ==
    /\ CancelledByUpdateOnly
    /\ [](\A c \in Callers, id \in 1..Len(appointments), t \in LcTimes,
             s \in StatusInputs, n \in {None, Some("n")} :
             ( /\ ~OwningPatient(c, id)
               /\ ~OwningDoctor(c, id)
               /\ c.role # "admin"
               /\ appointments[id].status # "cancelled" )
             => update_appointment_outcome(appointments, availabilities, c, id, t, s, n)
                    .appointments[id].status # "cancelled")

\* an update has just cancelled an appointment, moved it to 10:00 and written a note
C16_Witness ==
    /\ response = Ok("update")
    /\ Len(appointments) = 1
    /\ appointments[1].status = "cancelled"
    /\ appointments[1].notes # None
    /\ appointments[1].scheduled_time = 600

----------------------------------------------------------------------------
(* C17 *)

\* C17: in every reachable state an update issued by the doctor whose id equals the
\* appointment's doctor_id succeeds for each of the four status values and for notes
\* (its new time, if any, passing the conflict detector) and stores them; an update
\* issued by a doctor whose id differs, or by a patient whose id differs from the
\* appointment's patient_id, is answered 403 Forbidden and changes nothing.
C17_DoctorAuthority ==
    \A c \in Callers, id \in 1..Len(appointments), t \in LcTimes,
       s \in StatusInputs, n \in {None, Some("n")} :
        LET out == update_appointment_outcome(appointments, availabilities, c, id, t, s, n)
        IN  /\ ( /\ OwningDoctor(c, id)
                 /\ s = None \/ Val(s) \in {"pending", "approved", "rejected", "cancelled"}
                 /\ TimeAdmitted(id, t) )
               => /\ out.response = Ok("update")
                  /\ s # None => out.appointments[id].status = Val(s)
                  /\ n # None => out.appointments[id].notes = n
            /\ ( \/ c.role = "doctor" /\ c.id # appointments[id].doctor_id
                 \/ c.role = "patient" /\ c.id # appointments[id].patient_id )
               => /\ out.response = Err("update", 403, "Forbidden")
                  /\ out.appointments = appointments

\* an update of an approved appointment with a note has just been answered Forbidden
C17_Witness ==
    /\ response = Err("update", 403, "Forbidden")
    /\ Len(appointments) = 1
    /\ appointments[1].status = "approved"
    /\ appointments[1].notes = Some("n")

----------------------------------------------------------------------------
(* C18 *)

\* C18: across every operation an appointment stays in the table with the patient_id it
\* was created with, and its doctor_id changes only in a step that answers an admin
\* reassign with success.
C18_IdentityImmutable ==
    [][\A i \in 1..Len(appointments) :
          /\ i <= Len(appointments')
          /\ appointments'[i].patient_id = appointments[i].patient_id
          /\ appointments'[i].doctor_id # appointments[i].doctor_id
                 => response' = Ok("reassign")]_vars

\* a reassign has just moved an approved appointment to doctor 2, who has no window:
\* only doctor 1 could have been booked
C18_Witness ==
    /\ response = Ok("reassign")
    /\ Len(availabilities) = 1
    /\ Len(appointments) = 1
    /\ appointments[1].doctor_id = 2
    /\ appointments[1].status = "approved"

----------------------------------------------------------------------------
(* The reassign specification: two appointments booked for Monday 09:30 at  *)
(* hospital 1, the admin sets each of the four statuses on appointment 1,   *)
(* and reassigns appointments to either doctor, with or without hospital 2. *)

RaCreate ==
    \E c \in Callers, d \in Doctors, t \in {570, 2010} :
        /\ c.role = "patient"
        /\ create_appointment(c, d, Some(1), t)

RaStatus ==
    \E s \in AppointmentStatus :
        /\ Len(appointments) >= 1
        /\ update_appointment([role |-> "admin", id |-> 0], 1, None, Some(s), None)

RaReassign ==
    \E c \in Callers, id \in 1..MaxAppts, d \in Doctors, h \in {None, Some(2)} :
        /\ c.role = "admin" \/ c = [role |-> "doctor", id |-> 1]
        /\ reassign_appointment(c, id, d, h)

NextReassign == AddAvailability \/ RaCreate \/ RaStatus \/ RaReassign

SpecReassign == Init /\ [][NextReassign]_vars

----------------------------------------------------------------------------
(* C19 *)

\* C19: an admin reassign of an existing appointment succeeds at any status, whatever the
\* new doctor's availability and appointments: it sets doctor_id to the new doctor, sets
\* hospital_id only when a new hospital id is given, and leaves status, scheduled_time,
\* patient_id and notes of that appointment, and every other appointment, unchanged.
C19_ReassignAlwaysSucceeds ==
    [][response'.op = "reassign" =>
          \A id \in 1..Len(appointments), d \in Doctors, h \in {None, Some(2)} :
              reassign_appointment([role |-> "admin", id |-> 0], id, d, h)
              => /\ response' = Ok("reassign")
                 /\ appointments' = [appointments EXCEPT ![id] =
                        [patient_id |-> appointments[id].patient_id,
                         doctor_id |-> d,
                         hospital_id |-> IF h = None THEN appointments[id].hospital_id ELSE h,
                         scheduled_time |-> appointments[id].scheduled_time,
                         status |-> appointments[id].status,
                         notes |-> appointments[id].notes]]]_vars

\* a reassign has just put two appointments of the same time on one doctor, the first of
\* them rejected and still at hospital 1, the second moved to hospital 2
C19_Witness ==
    /\ response = Ok("reassign")
    /\ Len(appointments) = 2
    /\ appointments[1].doctor_id = appointments[2].doctor_id
    /\ appointments[1].scheduled_time = appointments[2].scheduled_time
    /\ appointments[1].status = "rejected"
    /\ appointments[1].hospital_id = Some(1)
    /\ appointments[2].hospital_id = Some(2)

----------------------------------------------------------------------------
(* C20 *)

\* C20: in every reachable state a cancelled appointment k still occupies its slot: the
\* conflict detector rejects a booking, and a reschedule of another appointment, for the
\* doctor of k or by the patient of k at an available time within 29 minutes of k, with
\* the doctor-slot reason for the doctor of k and otherwise (the requested doctor being
\* free) with the patient-slot reason, and its verdict is the one it gives when k is
\* pending or approved.
C20_CancelledOccupiesSlot ==
    \A k \in 1..Len(appointments), p \in Patients, d \in Doctors, t \in TimeInputs :
        ( /\ appointments[k].status = "cancelled"
          /\ Apart(t, k) <= 29
          /\ d = appointments[k].doctor_id \/ p = appointments[k].patient_id
          /\ InsideAvailability(d, t) )
        => \A exclude_id \in {None} \cup {Some(id) : id \in (1..Len(appointments)) \ {k}} :
               ( exclude_id # None =>
                     /\ appointments[Val(exclude_id)].doctor_id = d
                     /\ appointments[Val(exclude_id)].patient_id = p )
               => LET verdict == validate_appointment_slot(appointments, availabilities,
                                                           d, p, t, exclude_id)
                  IN  /\ verdict # "ok"
                      /\ d = appointments[k].doctor_id
                             => verdict = "Doctor has another appointment in that slot"
                      /\ (d # appointments[k].doctor_id /\ DoctorFree(d, t))
                             => verdict = "Patient has another appointment in that slot"
                      /\ \A st \in {"pending", "approved"} :
                             verdict = validate_appointment_slot(
                                           [appointments EXCEPT ![k].status = st],
                                           availabilities, d, p, t, exclude_id)

\* a booking within 29 minutes of a cancelled appointment, the only one in the table, has
\* just been rejected for the doctor's slot
C20_Witness ==
    /\ response = Err("create", 400, "Doctor has another appointment in that slot")
    /\ Len(appointments) = 1
    /\ appointments[1].status = "cancelled"

----------------------------------------------------------------------------
(* C21 *)

\* C21: a booking by a patient that lies inside the doctor's availability and is 30
\* minutes or more away from every appointment of the doctor and of the patient adds
\* exactly one row, pending, with the requested doctor, patient, hospital and time and
\* no notes, and leaves the earlier rows as they were; a booking that fails one of the
\* three checks is answered 400 and adds nothing.
C21_BookingCreatesOne ==
    [][\A c \in PatientCallers, d \in Doctors, t \in TimeInputs :
          ( /\ response'.op = "create"
            /\ create_appointment(c, d, Some(1), t) )
          => IF InsideAvailability(d, t) /\ DoctorFree(d, t) /\ PatientFree(c.id, t)
             THEN /\ response' = [op |-> "create", code |-> 200, detail |-> "ok"]
                  /\ appointments' = Append(appointments,
                         [patient_id |-> c.id, doctor_id |-> d, hospital_id |-> Some(1),
                          scheduled_time |-> t, status |-> "pending", notes |-> None])
             ELSE /\ response'.code = 400
                  /\ appointments' = appointments]_vars

\* patient 2 has just booked doctor 2 at the minute at which patient 1 sees doctor 1:
\* all three checks passed although the time is taken for another pair
C21_Witness ==
    /\ BookingOk
    /\ Len(appointments) = 2
    /\ appointments[1] = [patient_id |-> 1, doctor_id |-> 1, hospital_id |-> Some(1),
                          scheduled_time |-> 541, status |-> "pending", notes |-> None]
    /\ appointments[2] = [patient_id |-> 2, doctor_id |-> 2, hospital_id |-> Some(1),
                          scheduled_time |-> 541, status |-> "pending", notes |-> None]

----------------------------------------------------------------------------
(* deps.get_current_user and one endpoint behind it; the token endpoints   *)
(* with every kind of token presented to them.                             *)

\* variant: a token of either class accepted as the access credential
get_current_user_any_class(token, t) ==
    IF decode_token(token, FALSE, t) = None /\ decode_token(token, TRUE, t) = None
    THEN [code |-> 401, detail |-> "Invalid token", user |-> None]
    ELSE [code |-> 200, detail |-> "ok", user |-> Some(token.sub)]

\* variant: an access token is turned down once a refresh-token record of its user
\* has been revoked
get_current_user_session_bound(token, t) ==
    LET payload == decode_token(token, FALSE, t)
    IN  IF payload = None \/ Val(payload).type # "access"
        THEN [code |-> 401, detail |-> "Invalid token", user |-> None]
        ELSE IF \/ Val(payload).sub \notin Users
                \/ \E i \in 1..Len(refresh_tokens) :
                       refresh_tokens[i].user_id = Val(payload).sub /\ refresh_tokens[i].revoked
             THEN [code |-> 401, detail |-> "User not found", user |-> None]
             ELSE [code |-> 200, detail |-> "ok", user |-> Some(Val(payload).sub)]

\* deps.get_current_user at time t: the user, or the 401 it raises
get_current_user(token, t) ==
    LET payload == decode_token(token, FALSE, t)
    IN  IF payload = None \/ Val(payload).type # "access"
        THEN [code |-> 401, detail |-> "Invalid token", user |-> None]
        ELSE IF Val(payload).sub \notin Users
             THEN [code |-> 401, detail |-> "User not found", user |-> None]
             ELSE [code |-> 200, detail |-> "ok", user |-> Some(Val(payload).sub)]

\* GET /public/doctors: any authenticated user may read the list
list_doctors_public(token) ==
    /\ UNCHANGED <<appointments, availabilities, refresh_tokens, now, issued, req, patients, cipher>>
    /\ LET current_user == get_current_user(token, now)
       IN  response' = IF current_user.code = 200 THEN Ok("list_doctors_public")
                       ELSE Err("list_doctors_public", current_user.code, current_user.detail)

\* an exp claim later than every clock value of the model
FarFuture == 10 * REFRESH_TOKEN_EXPIRE_MINUTES

\* tokens signed with the refresh secret that the endpoints never handed out: one whose
\* jti no record carries (its record was purged or never written), one whose type claim
\* is not refresh, and one for the first jti whose exp outlives the record's expires_at
Orphan == [type |-> "refresh", sub |-> 1, jti |-> MaxTokens + 1, exp |-> FarFuture,
           key |-> "JWT_REFRESH_SECRET_KEY"]
Mistyped == [type |-> "access", sub |-> 1, jti |-> 1, exp |-> FarFuture,
             key |-> "JWT_REFRESH_SECRET_KEY"]
LongLived == [type |-> "refresh", sub |-> 1, jti |-> 1, exp |-> FarFuture,
              key |-> "JWT_REFRESH_SECRET_KEY"]
Crafted == {Forged, Orphan, Mistyped, LongLived}

ARefresh == \E token \in issued \cup Crafted : auth_refresh(token)

AListDoctors == \E token \in issued : list_doctors_public(token)

NextAuth == Login \/ ARefresh \/ Tick \/ AListDoctors

SpecAuth == Init /\ [][NextAuth]_vars

----------------------------------------------------------------------------
(* C22 *)

\* the token passes the checks made on the token alone: signed with the refresh
\* secret, type refresh, exp not passed
TokenValid(token) ==
    /\ token.key = "JWT_REFRESH_SECRET_KEY"
    /\ token.type = "refresh"
    /\ now <= token.exp

\* the rows that carry jti
RecordsOf(jti) == {i \in 1..Len(refresh_tokens) : refresh_tokens[i].jti = jti}

\* C22: a refresh presenting a token with a valid signature, type refresh and an exp
\* that has not passed is turned down, and changes nothing, whenever no record carries
\* its jti, or the record is revoked, or the record's expires_at lies in the past.
C22_RecordIsAuthority ==
    [][\A token \in issued \cup Crafted :
          ( /\ response'.op = "refresh"
            /\ TokenValid(token)
            /\ auth_refresh(token)
            /\ \/ RecordsOf(token.jti) = {}
               \/ \E i \in RecordsOf(token.jti) :
                      refresh_tokens[i].revoked \/ refresh_tokens[i].expires_at < now )
          => RefreshFailed]_vars

\* the record of jti 1 expired un-revoked a tick ago, no record is revoked, and a token
\* that passed the signature and exp checks has just been turned down on the record
C22_Witness ==
    /\ response = [op |-> "refresh", code |-> 401, detail |-> "Token invalid or revoked"]
    /\ Len(refresh_tokens) >= 1
    /\ refresh_tokens[1].user_id = 1
    /\ refresh_tokens[1].expires_at < now
    /\ \A i \in 1..Len(refresh_tokens) : ~refresh_tokens[i].revoked

----------------------------------------------------------------------------
(* C23 *)

\* the record store holds no usable record for the token: none with its jti, or one that
\* is revoked or past its expires_at
RecordUnusable(token) ==
    \/ RecordsOf(token.jti) = {}
    \/ \E i \in RecordsOf(token.jti) :
           refresh_tokens[i].revoked \/ refresh_tokens[i].expires_at < now

----------------------------------------------------------------------------
(* C24 *)

\* C24: with refresh requests interleaved statement by statement, every step keeps each
\* record in place with its jti and keeps a revoked record revoked; and a refresh that
\* presents a token after the record of its jti was revoked is turned down with 401 and
\* changes no record.
C24_RevokedStaysRevoked ==
    [][/\ \A i \in 1..Len(refresh_tokens) :
              /\ i <= Len(refresh_tokens')
              /\ refresh_tokens'[i].jti = refresh_tokens[i].jti
              /\ refresh_tokens[i].revoked => refresh_tokens'[i].revoked
       /\ \A p \in Procs, token \in issued :
              ( /\ token.type = "refresh"
                /\ \E i \in RecordsOf(token.jti) : refresh_tokens[i].revoked
                /\ refresh_validate(p, token) )
              => /\ req'[p].pc = "done"
                 /\ req'[p].code = 401
                 /\ refresh_tokens' = refresh_tokens]_vars

\* a request that presented an issued refresh token has been turned down: the record of
\* its jti had been revoked by an earlier rotation and is still revoked
C24_Witness ==
    \E p \in Procs :
        /\ req[p].pc = "done"
        /\ req[p].code = 401
        /\ req[p].token \in issued
        /\ req[p].token.type = "refresh"
        /\ \E i \in RecordsOf(req[p].token.jti) : refresh_tokens[i].revoked

----------------------------------------------------------------------------
(* C25 *)

\* the jti values revoke is applied to: those of the records, 0 and one no record has
JtiInputs == 0..(MaxTokens + 1)

\* C25: on every table the endpoints can produce and for every jti, revoke returns a
\* table of the same length in which the record of that jti is revoked and every other
\* record is as before; it returns the table itself when no record carries the jti and
\* when the record is already revoked; and revoking twice gives what revoking once gives.
C25_RevokeIdempotent ==
    \A jti \in JtiInputs :
        LET once == revoke_refresh_token(refresh_tokens, jti)
        IN  /\ Len(once) = Len(refresh_tokens)
            /\ \A i \in 1..Len(refresh_tokens) :
                   once[i] = IF refresh_tokens[i].jti = jti
                             THEN [refresh_tokens[i] EXCEPT !.revoked = TRUE]
                             ELSE refresh_tokens[i]
            /\ RecordsOf(jti) = {} => once = refresh_tokens
            /\ (\A i \in RecordsOf(jti) : refresh_tokens[i].revoked) => once = refresh_tokens
            /\ revoke_refresh_token(once, jti) = once

\* a rotation has just revoked the first record, so the table holds a revoked record,
\* an un-revoked one, and no record for the other jti values
C25_Witness ==
    /\ response = [op |-> "refresh", code |-> 200, detail |-> "ok"]
    /\ Len(refresh_tokens) = 2
    /\ refresh_tokens[1].revoked
    /\ ~refresh_tokens[2].revoked

----------------------------------------------------------------------------
(* C26 *)

\* the token as it would be were both classes signed with the one secret
SignedWith(token, secret) == [token EXCEPT !.key = secret]

\* C26: at every moment get_current_user answers 401 to every refresh token that was
\* handed out, also when the access secret has the value of the refresh secret; and a
\* refresh that presents a handed-out access token, also one signed with the refresh
\* secret, is turned down with 401 and changes nothing.
C26_ClassesNotInterchangeable ==
    /\ [](\A token \in issued :
              token.type = "refresh"
                  => /\ get_current_user(token, now).code = 401
                     /\ get_current_user(SignedWith(token, "JWT_SECRET_KEY"), now).code = 401)
    /\ [][\A token \in issued \cup {Mistyped} :
              ( /\ response'.op = "refresh"
                /\ token.type = "access"
                /\ auth_refresh(token) )
              => RefreshFailed]_vars

\* every token handed out is still inside its lifetime and GET /public/doctors has just
\* answered 401: the token presented to it was a refresh token
C26_Witness ==
    /\ response = [op |-> "list_doctors_public", code |-> 401, detail |-> "Invalid token"]
    /\ issued # {}
    /\ \A token \in issued : now <= token.exp

----------------------------------------------------------------------------
(* C27 *)

\* C27: a login, failed or not, leaves every record that existed before it as it was;
\* a successful refresh leaves every record as it was except the one that carries the
\* jti of the presented token.  (That one user can hold several live records is the
\* state described by C27_Witness.)
C27_OnlyPresentedRevoked ==
    [][/\ \A u \in Users, ok \in BOOLEAN :
              ( response'.op = "login" /\ login(u, ok) )
              => \A i \in 1..Len(refresh_tokens) : refresh_tokens'[i] = refresh_tokens[i]
       /\ \A token \in issued :
              ( /\ response' = Ok("refresh")
                /\ auth_refresh(token) )
              => \A i \in 1..Len(refresh_tokens) :
                     refresh_tokens[i].jti # token.jti
                         => refresh_tokens'[i] = refresh_tokens[i]]_vars

\* user 1 logged in twice and then rotated the first token: the second login's record
\* is still live next to the successor of the first
C27_Witness ==
    /\ response = [op |-> "refresh", code |-> 200, detail |-> "ok"]
    /\ Len(refresh_tokens) = 3
    /\ \A i \in 1..3 : refresh_tokens[i].user_id = 1 /\ now <= refresh_tokens[i].expires_at
    /\ refresh_tokens[1].revoked
    /\ ~refresh_tokens[2].revoked
    /\ ~refresh_tokens[3].revoked

----------------------------------------------------------------------------
(* encryption: the sealing of the patient columns (app/encryption.py).     *)
(* A str is the sequence of its code points, bytes a sequence of 0..255.   *)
(* An operation that raises returns None here where the caller catches it. *)

\* the sum of a sequence of numbers, by halves
RECURSIVE SumSeq(_)
SumSeq(s) ==
    IF s = <<>> THEN 0
    ELSE IF Len(s) = 1 THEN s[1]
    ELSE SumSeq(SubSeq(s, 1, Len(s) \div 2)) + SumSeq(SubSeq(s, Len(s) \div 2 + 1, Len(s)))

Min(a, b) == IF a <= b THEN a ELSE b

\* the UTF-8 bytes of one code point
utf8(c) ==
    IF c < 128 THEN <<c>>
    ELSE IF c < 2048 THEN <<192 + c \div 64, 128 + (c % 64)>>
    ELSE IF c < 65536
         THEN <<224 + c \div 4096, 128 + ((c \div 64) % 64), 128 + (c % 64)>>
         ELSE <<240 + c \div 262144, 128 + ((c \div 4096) % 64),
                128 + ((c \div 64) % 64), 128 + (c % 64)>>

\* str.encode(): UTF-8, the string taken by halves
RECURSIVE str_encode(_)
str_encode(s) ==
    IF s = <<>> THEN <<>>
    ELSE IF Len(s) = 1 THEN utf8(s[1])
    ELSE str_encode(SubSeq(s, 1, Len(s) \div 2))
             \o str_encode(SubSeq(s, Len(s) \div 2 + 1, Len(s)))

\* variant: the bytes read one code point per byte (latin-1)
bytes_decode_latin1(b) == Some(b)

\* bytes.decode(): strict UTF-8, None for UnicodeDecodeError
RECURSIVE bytes_decode(_)
bytes_decode(b) ==
    IF b = <<>> THEN Some(<<>>)
    ELSE LET n == IF b[1] < 128 THEN 1
                  ELSE IF b[1] \in 194..223 THEN 2
                  ELSE IF b[1] \in 224..239 THEN 3
                  ELSE IF b[1] \in 240..244 THEN 4 ELSE 0
             low(k) == b[k] - 128
             c == IF n = 1 THEN b[1]
                  ELSE IF n = 2 THEN (b[1] - 192) * 64 + low(2)
                  ELSE IF n = 3 THEN (b[1] - 224) * 4096 + low(2) * 64 + low(3)
                  ELSE (b[1] - 240) * 262144 + low(2) * 4096 + low(3) * 64 + low(4)
             ok == /\ n > 0
                   /\ n <= Len(b)
                   /\ \A k \in 2..n : b[k] \in 128..191
                   /\ n = 3 => c >= 2048 /\ c \notin 55296..57343
                   /\ n = 4 => c \in 65536..1114111
         IN  IF ~ok THEN None
             ELSE LET rest == bytes_decode(SubSeq(b, n + 1, Len(b)))
                  IN  IF rest = None THEN None ELSE Some(<<c>> \o Val(rest))

\* the base64 alphabet: the character of a 6-bit value, and the value of a character
\* (-1 outside the alphabet); "=" is 61
B64Char(v) ==
    IF v < 26 THEN 65 + v
    ELSE IF v < 52 THEN 97 + (v - 26)
    ELSE IF v < 62 THEN 48 + (v - 52)
    ELSE IF v = 62 THEN 43 ELSE 47

B64Value(ch) ==
    IF ch \in 65..90 THEN ch - 65
    ELSE IF ch \in 97..122 THEN ch - 97 + 26
    ELSE IF ch \in 48..57 THEN ch - 48 + 52
    ELSE IF ch = 43 THEN 62
    ELSE IF ch = 47 THEN 63 ELSE -1

\* base64.b64encode(b).decode(): each group of three bytes gives four characters, the
\* last group is filled with zero bits and closed with "="
b64encode(b) ==
    LET byte(k) == IF k <= Len(b) THEN b[k] ELSE 0
        groups == (Len(b) + 2) \div 3
        char(m) ==
            LET g == (m - 1) \div 4
                b1 == byte(3 * g + 1)
                b2 == byte(3 * g + 2)
                b3 == byte(3 * g + 3)
                r == (m - 1) % 4
            IN  IF r = 0 THEN B64Char(b1 \div 4)
                ELSE IF r = 1 THEN B64Char((b1 % 4) * 16 + b2 \div 16)
                ELSE IF r = 2
                THEN (IF 3 * g + 2 > Len(b) THEN 61 ELSE B64Char((b2 % 16) * 4 + b3 \div 64))
                ELSE (IF 3 * g + 3 > Len(b) THEN 61 ELSE B64Char(b3 % 64))
    IN  [m \in 1..(4 * groups) |-> char(m)]

\* binascii.a2b_base64 without strict_mode.  Characters outside the alphabet are
\* skipped.  quad_pos at a character is the number of alphabet characters before it
\* modulo 4, pads the number of "=" since the last alphabet character; the parse ends at
\* the first "=" with quad_pos >= 2 and quad_pos + pads >= 4, what follows is ignored.
\* Without such an end an incomplete last group is binascii.Error (None).
a2b_base64(s) ==
    LET alpha(i) == B64Value(s[i]) >= 0
        quad_pos(i) == Cardinality({k \in 1..(i - 1) : alpha(k)}) % 4
        pads(i) == Cardinality({k \in 1..i : s[k] = 61 /\ \A m \in k..i : ~alpha(m)})
        ends == {i \in 1..Len(s) :
                    s[i] = 61 /\ quad_pos(i) >= 2 /\ quad_pos(i) + pads(i) >= 4}
        stop == IF ends = {} THEN Len(s) + 1
                ELSE CHOOSE i \in ends : \A k \in ends : i <= k
        kept == SelectSeq(SubSeq(s, 1, stop - 1), LAMBDA ch : B64Value(ch) >= 0)
        v(k) == B64Value(kept[k])
        rem == Len(kept) % 4
        n == 3 * (Len(kept) \div 4) + (IF rem >= 2 THEN rem - 1 ELSE 0)
        byte(k) ==
            LET g == 4 * ((k - 1) \div 3)
                r == (k - 1) % 3
            IN  IF r = 0 THEN v(g + 1) * 4 + v(g + 2) \div 16
                ELSE IF r = 1 THEN (v(g + 2) % 16) * 16 + v(g + 3) \div 4
                ELSE (v(g + 3) % 4) * 64 + v(g + 4)
    IN  IF ends = {} /\ rem # 0 THEN None
        ELSE Some([k \in 1..n |-> byte(k)])

\* base64.b64decode(s) for a str s: ValueError (None) on a non-ASCII character
b64decode(s) ==
    IF \E i \in 1..Len(s) : s[i] > 127 THEN None
    ELSE a2b_base64(s)

\* AESGCM, as far as the code depends on it: the ciphertext has the length of the data,
\* is followed by a 16-byte tag, and is undone under the same key and nonce; decrypt
\* raises on a nonce outside 8..128 bytes, on data shorter than the tag and on a tag
\* that does not belong to key, nonce and ciphertext.  The cipher itself is replaced
\* by a byte-wise keyed shift and a keyed position-weighted checksum.
TagBytes == 16

keystream(key, nonce, i) == (SumSeq(key) + SumSeq(nonce) * i + 7 * i) % 256

RECURSIVE Weighted(_, _, _)
Weighted(s, j, i) == IF i > Len(s) THEN 0 ELSE (i + j) * s[i] + Weighted(s, j, i + 1)

aesgcm_tag(key, nonce, body) ==
    LET k == SumSeq(key)
        n == SumSeq(nonce)
    IN  [j \in 1..TagBytes |-> (k + j * n + Weighted(body, j, 1) + Len(body)) % 256]

aesgcm_encrypt(key, nonce, data) ==
    LET body == [i \in 1..Len(data) |-> (data[i] + keystream(key, nonce, i)) % 256]
    IN  body \o aesgcm_tag(key, nonce, body)

\* variant: the tag is not verified
aesgcm_decrypt_unverified(key, nonce, data) ==
    IF Len(nonce) \notin 8..128 \/ Len(data) < TagBytes THEN None
    ELSE LET body == SubSeq(data, 1, Len(data) - TagBytes)
         IN  Some([i \in 1..Len(body) |-> (body[i] + 256 - keystream(key, nonce, i)) % 256])

aesgcm_decrypt(key, nonce, data) ==
    IF Len(nonce) \notin 8..128 \/ Len(data) < TagBytes THEN None
    ELSE LET body == SubSeq(data, 1, Len(data) - TagBytes)
             tag == SubSeq(data, Len(data) - TagBytes + 1, Len(data))
         IN  IF tag # aesgcm_tag(key, nonce, body) THEN None
             ELSE Some([i \in 1..Len(body) |-> (body[i] + 256 - keystream(key, nonce, i)) % 256])

\* settings.AES_ENCRYPTION_KEY, the default "16byteslongkey!!"
AES_ENCRYPTION_KEY ==
    <<49, 54, 98, 121, 116, 101, 115, 108, 111, 110, 103, 107, 101, 121, 33, 33>>

\* encryption._normalize_key: 32 bytes, cut or padded with the character "0"
normalize_key(raw) ==
    LET b == str_encode(raw)
    IN  IF Len(b) >= 32 THEN SubSeq(b, 1, 32)
        ELSE SubSeq(b \o [i \in 1..32 |-> 48], 1, 32)

KEY == normalize_key(AES_ENCRYPTION_KEY)

\* the length of the nonce encrypt draws and decrypt cuts off
NonceBytes == 12

\* encryption.encrypt under a key, with the nonce os.urandom drew
encrypt_under(key, plaintext, nonce) ==
    IF plaintext = None THEN None
    ELSE Some(b64encode(nonce \o aesgcm_encrypt(key, nonce, str_encode(Val(plaintext)))))

\* encryption.decrypt under a key; every exception becomes None
decrypt_under(key, token) ==
    IF token = None THEN None
    ELSE LET raw == b64decode(Val(token))
         IN  IF raw = None THEN None
             ELSE LET nonce == SubSeq(Val(raw), 1, Min(NonceBytes, Len(Val(raw))))
                      ct == SubSeq(Val(raw), NonceBytes + 1, Len(Val(raw)))
                      pt == aesgcm_decrypt(key, nonce, ct)
                  IN  IF pt = None THEN None ELSE bytes_decode(Val(pt))

\* encryption.encrypt and encryption.decrypt with the module's KEY
encrypt(plaintext, nonce) == encrypt_under(KEY, plaintext, nonce)
decrypt(token) == decrypt_under(KEY, token)

----------------------------------------------------------------------------
(* One value sealed, possibly changed while stored, and opened again.      *)

\* plaintext inputs: "", "7", and one character of 2, 3 and 4 UTF-8 bytes
PlainInputs == {<<>>, <<55>>, <<233>>, <<8364>>, <<128512>>}

\* the values os.urandom(12) returns here
Nonces == {[i \in 1..NonceBytes |-> 0], [i \in 1..NonceBytes |-> (i * 37) % 256]}

\* the key of a deployment configured with another AES_ENCRYPTION_KEY, "old"
OtherKey == normalize_key(<<111, 108, 100>>)

\* a character of the token replaced by its neighbour in the alphabet
Flip(ch) == IF B64Value(ch) < 0 THEN 65 ELSE B64Char((B64Value(ch) + 1) % 64)

\* what a stored token t can have become: cut short, one character replaced, a line
\* break inserted, characters appended
Damaged(t) ==
    {SubSeq(t, 1, k) : k \in 0..(Len(t) - 1)}
        \cup {[t EXCEPT ![k] = Flip(t[k])] : k \in 1..Len(t)}
        \cup {SubSeq(t, 1, k) \o <<10>> \o SubSeq(t, k + 1, Len(t)) : k \in 0..Len(t)}
        \cup {t \o <<65, 65, 65, 65>>, t \o <<233>>}

UNCHANGED_cipher ==
    UNCHANGED <<appointments, availabilities, refresh_tokens, now, issued, response, req,
                patients>>

InitSeal ==
    /\ appointments = <<>>
    /\ availabilities = <<>>
    /\ refresh_tokens = <<>>
    /\ now = 0
    /\ issued = {}
    /\ response = Ok("start")
    /\ req = <<>>
    /\ patients = <<>>
    /\ cipher \in {[IdleCipher EXCEPT !.op = "input", !.plaintext = p] :
                      p \in {None} \cup {Some(x) : x \in PlainInputs}}

\* encryption.encrypt applied to the input
Encrypt ==
    /\ cipher.op = "input"
    /\ \E nonce \in Nonces :
           cipher' = [cipher EXCEPT !.op = "sealed",
                                    !.sealed = encrypt(cipher.plaintext, nonce),
                                    !.token = encrypt(cipher.plaintext, nonce)]
    /\ UNCHANGED_cipher

\* the stored token changes outside the code, or was written under another key
Corrupt ==
    /\ cipher.op = "sealed"
    /\ cipher.token # None
    /\ \E t \in Damaged(Val(cipher.sealed))
                  \cup {Val(encrypt_under(OtherKey, cipher.plaintext, n)) : n \in Nonces} :
           cipher' = [cipher EXCEPT !.op = "damaged", !.token = Some(t)]
    /\ UNCHANGED_cipher

\* encryption.decrypt applied to the stored token
Decrypt ==
    /\ cipher.op \in {"sealed", "damaged"}
    /\ cipher' = [cipher EXCEPT !.op = "opened", !.opened = decrypt(cipher.token)]
    /\ UNCHANGED_cipher

NextSeal == Encrypt \/ Corrupt \/ Decrypt

SpecSeal == InitSeal /\ [][NextSeal]_vars

----------------------------------------------------------------------------
(* C28 *)

\* C28: encrypt returns None exactly for None, and decrypt applied to what encrypt
\* returned gives back the input: None for None, and for a string that string, the
\* empty one and those with non-ASCII characters included.
C28_RoundTrip ==
    /\ cipher.op \in {"sealed", "opened"} => (cipher.sealed = None <=> cipher.plaintext = None)
    /\ ( cipher.op = "opened" /\ cipher.token = cipher.sealed )
           => cipher.opened = cipher.plaintext

\* the one-character string U+1F600 was sealed and opened again unchanged
C28_Witness ==
    /\ cipher.op = "opened"
    /\ cipher.token = cipher.sealed
    /\ cipher.plaintext = Some(<<128512>>)
    /\ cipher.opened = Some(<<128512>>)

----------------------------------------------------------------------------
(* C29 *)

\* the tokens encrypt can return under the module's key for the inputs above
SealOutputs == {encrypt(Some(x), n) : x \in PlainInputs, n \in Nonces}

SameBytes ==
    \/ cipher.token = cipher.sealed
    \/ /\ cipher.token # None
       /\ cipher.sealed # None
       /\ b64decode(Val(cipher.token)) # None
       /\ b64decode(Val(cipher.token)) = b64decode(Val(cipher.sealed))

----------------------------------------------------------------------------
(* The patient profile: registration and profile update.  A patients row   *)
(* is the user it belongs to and the four profile columns; the users table *)
(* is not kept, a new user takes the next id.                              *)

MaxPatients == 1

\* truthiness of an Optional[str]: None and the empty string are falsy
TruthyStr(o) == o # None /\ Val(o) # <<>>

\* models.Patient(user_id=...) as crud.create_user adds it for a patient
new_patient(user_id) ==
    [user_id |-> user_id, date_of_birth |-> None, contact_number |-> None,
     address |-> None, emergency_contact |-> None]

\* variant: emergency_contact stored as it came in
create_patient_with_user_plain(user_id, patient_in, nonces) ==
    [user_id |-> user_id,
     date_of_birth |-> patient_in.date_of_birth,
     contact_number |-> IF TruthyStr(patient_in.contact_number)
                        THEN encrypt(patient_in.contact_number, nonces[1]) ELSE None,
     address |-> IF TruthyStr(patient_in.address)
                 THEN encrypt(patient_in.address, nonces[2]) ELSE None,
     emergency_contact |-> patient_in.emergency_contact]

\* crud.create_patient_with_user: the Patient row; nonces are the values os.urandom
\* returns to the three encrypt calls
create_patient_with_user(user_id, patient_in, nonces) ==
    [user_id |-> user_id,
     date_of_birth |-> patient_in.date_of_birth,
     contact_number |-> IF TruthyStr(patient_in.contact_number)
                        THEN encrypt(patient_in.contact_number, nonces[1]) ELSE None,
     address |-> IF TruthyStr(patient_in.address)
                 THEN encrypt(patient_in.address, nonces[2]) ELSE None,
     emergency_contact |-> IF TruthyStr(patient_in.emergency_contact)
                           THEN encrypt(patient_in.emergency_contact, nonces[3]) ELSE None]

\* crud.update_patient_profile: the Patient row afterwards
update_patient_profile(patient, data, nonces) ==
    [user_id |-> patient.user_id,
     date_of_birth |-> IF data.date_of_birth # None
                       THEN data.date_of_birth ELSE patient.date_of_birth,
     contact_number |-> IF data.contact_number # None
                        THEN encrypt(data.contact_number, nonces[1])
                        ELSE patient.contact_number,
     address |-> IF data.address # None
                 THEN encrypt(data.address, nonces[2]) ELSE patient.address,
     emergency_contact |-> IF data.emergency_contact # None
                           THEN encrypt(data.emergency_contact, nonces[3])
                           ELSE patient.emergency_contact]

UNCHANGED_patients ==
    UNCHANGED <<appointments, availabilities, refresh_tokens, now, issued, req, cipher>>

\* POST /auth/register
register(role) ==
    /\ UNCHANGED_patients
    /\ response' = Ok("register")
    /\ IF role = "patient"
       THEN /\ Len(patients) < MaxPatients
            /\ patients' = Append(patients, new_patient(Len(patients) + 1))
       ELSE UNCHANGED patients

\* POST /patients/register
register_patient(data, nonces) ==
    /\ UNCHANGED_patients
    /\ Len(patients) < MaxPatients
    /\ patients' = Append(patients, create_patient_with_user(Len(patients) + 1, data, nonces))
    /\ response' = Ok("register_patient")

\* PATCH /patients/me
update_patient(current_user, data, nonces) ==
    /\ UNCHANGED_patients
    /\ IF current_user.role # "patient"
       THEN /\ response' = Err("update_patient", 403, "Forbidden")
            /\ UNCHANGED patients
       ELSE /\ current_user.id \in 1..Len(patients)
            /\ patients' = [patients EXCEPT ![current_user.id] =
                               update_patient_profile(patients[current_user.id], data, nonces)]
            /\ response' = Ok("update_patient")

\* profile inputs: the date absent or given, each sealed column absent, "" or "7"
\* (address: absent or "7")
ProfileInputs ==
    [date_of_birth : {None, Some("1990-01-01")},
     contact_number : {None, Some(<<>>), Some(<<55>>)},
     address : {None, Some(<<55>>)},
     emergency_contact : {None, Some(<<>>), Some(<<55>>)}]

NonceInputs == [1..3 -> Nonces]

PRegister == \E role \in {"patient", "doctor", "admin"} : register(role)

PRegisterPatient == \E data \in ProfileInputs, nonces \in NonceInputs : register_patient(data, nonces)

\* the callers of the profile update: the patient of the row, a doctor and the admin
PUpdatePatient ==
    \E c \in Callers, data \in ProfileInputs, nonces \in NonceInputs :
        /\ c.id <= MaxPatients
        /\ update_patient(c, data, nonces)

NextPatients == PRegister \/ PRegisterPatient \/ PUpdatePatient

SpecPatients == Init /\ [][NextPatients]_vars

----------------------------------------------------------------------------
(* C30 *)

\* the sealed columns of a patients row
SealedColumns(row) == {row.contact_number, row.address, row.emergency_contact}

\* C30: in every reachable state each of contact_number, address and emergency_contact
\* of each patient is None or a token encrypt returns under the current key, one that
\* decrypt opens; it is never one of the strings that came in.
C30_PiiSealed ==
    \A i \in 1..Len(patients) : \A col \in SealedColumns(patients[i]) :
        \/ col = None
        \/ /\ col \in SealOutputs
           /\ decrypt(col) # None
           /\ Val(col) \notin PlainInputs

\* after a registration and a profile update a row holds a sealed empty string, an
\* absent address and a sealed "7"
C30_Witness ==
    /\ response = [op |-> "update_patient", code |-> 200, detail |-> "ok"]
    /\ Len(patients) = 1
    /\ patients[1].contact_number # None
    /\ decrypt(patients[1].contact_number) = Some(<<>>)
    /\ patients[1].address = None
    /\ decrypt(patients[1].emergency_contact) = Some(<<55>>)

----------------------------------------------------------------------------
(* The availability store on its own: every caller, the doctor id of the   *)
(* path and of the body, days inside and outside the week, and start and   *)
(* end times in both orders.                                               *)

\* POST /admin/doctors/{doctor_id}/availability with the body data
add_availability_request(caller, doctor_id, data) ==
    IF caller.role = "admin" /\ doctor_id # data.doctor_id
    THEN /\ response' = Err("add_availability", 400, "Doctor ID mismatch")
         /\ UNCHANGED availabilities
         /\ UNCHANGED appointments
         /\ UNCHANGED_tokens
    ELSE add_availability(caller, data.doctor_id, data.day_of_week, data.start_time,
                          data.end_time)

\* schemas.DoctorAvailabilityCreate: any int for the day, any str for the times
AvailabilityInputs ==
    [doctor_id : Doctors, day_of_week : {-1, 0, 6, 7},
     start_time : {T0900, T1030}, end_time : {T0900, T1030}]

SAddAvailability ==
    \E c \in Callers, d \in Doctors, data \in AvailabilityInputs :
        add_availability_request(c, d, data)

NextStore == SAddAvailability

SpecStore == Init /\ [][NextStore]_vars

----------------------------------------------------------------------------
(* C31 *)

\* C31: in every reachable state every stored availability window has day_of_week in
\* 0..6 and a start_time earlier than its end_time.
C31_WindowsWellFormed ==
    \A i \in 1..Len(availabilities) :
        /\ availabilities[i].day_of_week \in 0..6
        /\ MinutesOf(availabilities[i].start_time) < MinutesOf(availabilities[i].end_time)

(* C32 *)
\* the detector's verdict on a request of patient p for doctor d at time t, nothing excluded
Verdict(d, p, t) ==
    validate_appointment_slot(appointments, availabilities, d, p, t, None)

\* some stored appointment of doctor d lies within 29 minutes of t
DoctorBusy(d, t) ==
    \E i \in 1..Len(appointments) :
        appointments[i].doctor_id = d /\ Apart(t, i) <= SlotMinutes

\* some stored appointment of patient p lies within 29 minutes of t
PatientBusy(p, t) ==
    \E i \in 1..Len(appointments) :
        appointments[i].patient_id = p /\ Apart(t, i) <= SlotMinutes

\* C32: the detector reports the first failing check in the order availability, doctor
\* slot, patient slot: a time outside the doctor's availability is reported as
\* doctor-unavailable whatever slot conflicts exist, and a time inside availability with
\* a doctor-slot conflict is reported as the doctor-slot conflict even when the patient
\* has a conflict too; the patient-slot conflict is reported only when the first two pass.
C32_FirstFailingCheck ==
    \A d \in Doctors, p \in Patients, t \in TimeInputs :
        /\ ~InsideAvailability(d, t) => Verdict(d, p, t) = DoctorUnavailable
        /\ InsideAvailability(d, t) /\ DoctorBusy(d, t) => Verdict(d, p, t) = DoctorSlotConflict
        /\ InsideAvailability(d, t) /\ ~DoctorBusy(d, t) /\ PatientBusy(p, t)
               => Verdict(d, p, t) = PatientSlotConflict

\* both orderings are exercised: a request failing all three checks, and one inside
\* availability that fails both slot checks
C32_Witness ==
    /\ \E d \in Doctors, p \in Patients, t \in TimeInputs :
           /\ ~InsideAvailability(d, t) /\ DoctorBusy(d, t) /\ PatientBusy(p, t)
           /\ Verdict(d, p, t) = DoctorUnavailable
    /\ \E d \in Doctors, p \in Patients, t \in TimeInputs :
           /\ InsideAvailability(d, t) /\ DoctorBusy(d, t) /\ PatientBusy(p, t)
           /\ Verdict(d, p, t) = DoctorSlotConflict

(* C33 *)
\* the result of PATCH /appointments/{id} by caller c with AppointmentUpdate(t, s, n)
PatchOutcome(c, id, t, s, n) ==
    update_appointment_outcome(appointments, availabilities, c, id, t, s, n)

\* t is a valid, conflict-free new time for appointment id
FreshSlot(id, t) ==
    /\ t # appointments[id].scheduled_time
    /\ validate_appointment_slot(appointments, availabilities, appointments[id].doctor_id,
                                 appointments[id].patient_id, t, Some(id)) = "ok"

\* every update that is answered with an error would leave the stored appointments as
\* they are, whoever calls and whatever the body carries
C33_FailedPatchKeepsStore ==
    \A c \in Callers, id \in 1..MaxAppts, t \in {None, Some(570), Some(600), Some(630)},
       s \in StatusInputs :
        LET out == PatchOutcome(c, id, t, s, None)
        IN  out.response.code # 200 => out.appointments = appointments

\* a step that answers with an error leaves the stored appointments unchanged
C33_ErrorStepKeepsStore == response'.code # 200 => appointments' = appointments

\* C33: every operation that answers with an error leaves the stored appointments
\* unchanged, on every exit path; in particular an update carrying a valid, conflict-free
\* new scheduled_time together with a status string outside the four status values is
\* answered with 400 and the new time is not stored.
C33_ErrorsLeaveRecord ==
    /\ [](C33_FailedPatchKeepsStore)
    /\ [][C33_ErrorStepKeepsStore]_vars

\* an update was refused for its status string while a valid, conflict-free new time was
\* on offer for the appointment, which kept its old time
C33_Witness ==
    /\ response = Err("update", 400, InvalidStatus)
    /\ \E id \in 1..Len(appointments), c \in Callers, t \in {570, 600} :
           /\ FreshSlot(id, t)
           /\ PatchOutcome(c, id, Some(t), Some("bogus"), None).response
                  = Err("update", 400, InvalidStatus)
           /\ PatchOutcome(c, id, Some(t), Some("bogus"), None).appointments = appointments

(* C34 *)
\* the detector would refuse the current time of appointment id: it is outside the
\* doctor's availability, or within 29 minutes of another appointment of the same doctor
\* or of the same patient
CurrentTimeRefused(id) ==
    \/ ~InsideAvailability(appointments[id].doctor_id, appointments[id].scheduled_time)
    \/ \E j \in 1..Len(appointments) :
           /\ j # id
           /\ Apart(appointments[id].scheduled_time, j) <= SlotMinutes
           /\ \/ appointments[j].doctor_id = appointments[id].doctor_id
              \/ appointments[j].patient_id = appointments[id].patient_id

\* the status values a caller may send: a patient only the cancellation
StatusesOf(c) ==
    IF c.role = "patient" THEN {None, Some(CANCELLED)}
    ELSE {None} \cup {Some(x) : x \in AppointmentStatus}

\* an update without scheduled_time by an authorized caller succeeds in every state and
\* keeps the scheduled_time of every appointment
C34_StatusNotesOnly ==
    \A id \in 1..Len(appointments) :
        \A c \in Authorized(id), n \in {None, Some("n")} :
            \A s \in StatusesOf(c) :
                LET out == update_appointment_outcome(appointments, availabilities, c, id,
                                                      None, s, n)
                IN  /\ out.response = Ok("update")
                    /\ \A i \in 1..Len(appointments) :
                           out.appointments[i].scheduled_time = appointments[i].scheduled_time

\* the doctor-note edit never answers with a detector message and keeps every
\* scheduled_time
C34_DoctorNoteStep ==
    response'.op = "doctor_note" =>
        /\ response'.detail \in {"ok", "Not found", "Forbidden"}
        /\ Len(appointments') = Len(appointments)
        /\ \A i \in 1..Len(appointments) :
               appointments'[i].scheduled_time = appointments[i].scheduled_time

\* C34: the conflict detector is not run for updates that carry only status and/or notes
\* nor for the doctor-note edit: they succeed whatever the detector would say about the
\* appointment's current time, and they leave scheduled_time unchanged.
C34_DetectorNotRun ==
    /\ [](C34_StatusNotesOnly)
    /\ [][C34_DoctorNoteStep]_vars

\* the only appointment ever stored was moved by the admin to a doctor who is not
\* available at its time, and a cancellation of it was then accepted
C34_Witness ==
    /\ Len(appointments) = 1
    /\ response = Ok("update")
    /\ appointments[1].status = CANCELLED
    /\ CurrentTimeRefused(1)
    /\ validate_appointment_slot(appointments, availabilities, appointments[1].doctor_id,
                                 appointments[1].patient_id, appointments[1].scheduled_time,
                                 Some(1)) = DoctorUnavailable

(* C35 *)
\* C35: an update issued by a patient changes at most the scheduled_time and the status
\* of the appointment: whatever the body carries, an accepted update of a patient leaves
\* the notes of every appointment as they were.
C35_PatientKeepsNotes ==
    \A c \in PatientCallers, id \in 1..Len(appointments),
       t \in {None, Some(570), Some(600)}, s \in StatusInputs, n \in {None, Some("n")} :
        LET out == update_appointment_outcome(appointments, availabilities, c, id, t, s, n)
        IN  out.response.code = 200 =>
                \A i \in 1..Len(appointments) :
                    out.appointments[i].notes = appointments[i].notes

----------------------------------------------------------------------------
(* Issuing a token pair, the readings of the clock told apart.  The token's  *)
(* exp is computed by security.create_token from its own reading of the     *)
(* clock (security.py:21); the record's expires_at is computed by the       *)
(* handler from a later reading (routers.py:31, routers.py:49).  elapsed is *)
(* the time between the two readings.                                       *)

\* POST /auth/login
login_at(user_id, authenticated, elapsed) ==
    /\ UNCHANGED_appointments
    /\ UNCHANGED req
    /\ IF ~authenticated
       THEN /\ response' = Err("login", 401, "Invalid credentials")
            /\ UNCHANGED <<refresh_tokens, issued, now>>
       ELSE LET jti == uuid4
            IN  /\ Len(refresh_tokens) < MaxTokens
                /\ now' = now + elapsed
                /\ refresh_tokens' = create_refresh_token_record(refresh_tokens, user_id, jti,
                                         now' + REFRESH_TOKEN_EXPIRE_MINUTES)
                /\ issued' = issued \cup {create_access_token(user_id, now),
                                          create_refresh_token(user_id, jti, now)}
                /\ response' = Ok("login")

\* POST /auth/refresh
auth_refresh_at(token, elapsed) ==
    /\ UNCHANGED_appointments
    /\ UNCHANGED req
    /\ LET payload == decode_token(token, TRUE, now)
       IN  IF payload = None \/ Val(payload).type # "refresh"
           THEN /\ response' = Err("refresh", 401, "Invalid refresh token")
                /\ UNCHANGED <<refresh_tokens, issued, now>>
           ELSE LET user_id == Val(payload).sub
                    jti == Val(payload).jti
                    new_jti == uuid4
                IN  IF \/ user_id \notin Users
                       \/ jti = 0
                       \/ ~validate_refresh_token(refresh_tokens, jti, user_id, now)
                    THEN /\ response' = Err("refresh", 401, "Token invalid or revoked")
                         /\ UNCHANGED <<refresh_tokens, issued, now>>
                    ELSE /\ Len(refresh_tokens) < MaxTokens
                         /\ now' = now + elapsed
                         /\ refresh_tokens' = create_refresh_token_record(
                                revoke_refresh_token(refresh_tokens, jti), user_id, new_jti,
                                now' + REFRESH_TOKEN_EXPIRE_MINUTES)
                         /\ issued' = issued \cup {create_access_token(user_id, now),
                                                   create_refresh_token(user_id, new_jti, now)}
                         /\ response' = Ok("refresh")

\* the time between the two readings of the clock: none that the unit of the model
\* shows, or one unit
Elapsed == {0, 1}

CLogin == \E u \in Users, ok \in BOOLEAN, e \in Elapsed : login_at(u, ok, e)

CRefresh == \E token \in issued \cup {Forged}, e \in Elapsed : auth_refresh_at(token, e)

NextClock == CLogin \/ CRefresh \/ Tick

SpecClock == Init /\ [][NextClock]_vars

(* C36 *)
\* the step is a login or a refresh that succeeded and returned its token pair
PairIssued ==
    /\ response'.op \in {"login", "refresh"}
    /\ response'.code = 200
    /\ issued' # issued

\* the refresh tokens the step returned
ReturnedRefresh == {tok \in issued' \ issued : tok.type = "refresh"}

\* the step stored exactly one new record and kept user, jti and expiry of the others
OneNewRecord ==
    /\ Len(refresh_tokens') = Len(refresh_tokens) + 1
    /\ \A i \in 1..Len(refresh_tokens) :
           /\ refresh_tokens'[i].user_id = refresh_tokens[i].user_id
           /\ refresh_tokens'[i].jti = refresh_tokens[i].jti
           /\ refresh_tokens'[i].expires_at = refresh_tokens[i].expires_at

\* the record the step appended
NewRecord == refresh_tokens'[Len(refresh_tokens')]

----------------------------------------------------------------------------
(* Runs without admin reassign: every handler is one atomic step, and the   *)
(* reassign endpoint is never called.                                       *)

NextAtomic ==
    \/ AddAvailability
    \/ CreateAppointment
    \/ UpdateAppointment
    \/ UpdateDoctorNote

SpecAtomic == Init /\ [][NextAtomic]_vars

(* C37 *)
\* row i was created by the step, or the step changed its scheduled_time
Written(i) ==
    \/ i > Len(appointments)
    \/ appointments'[i].scheduled_time # appointments[i].scheduled_time

\* every row the step created or moved passes the three checks of the detector against
\* the table the step started from, with only the row itself excluded
C37_WrittenAfterChecks ==
    \A i \in 1..Len(appointments') :
        Written(i) =>
            validate_appointment_slot(appointments, availabilities,
                                      appointments'[i].doctor_id, appointments'[i].patient_id,
                                      appointments'[i].scheduled_time, Some(i)) = "ok"

\* C37: in a run without admin reassign in which every booking and reschedule validates
\* and writes in one atomic step, no two appointments of the same doctor are ever within
\* 29 minutes of each other, and every committed creation or change of scheduled_time
\* satisfied all three checks against the state it was written into, with only the
\* appointment itself excluded.
C37_AtomicRunsSeparated ==
    /\ [](\A i, j \in 1..Len(appointments) :
             (i # j /\ appointments[i].doctor_id = appointments[j].doctor_id)
                 => Apart(appointments[i].scheduled_time, j) > SlotMinutes)
    /\ [][C37_WrittenAfterChecks]_vars

\* a second appointment of the same patient with the same doctor was just committed,
\* 30 minutes from the first, and each of the two passes the checks against the other
C37_Witness ==
    /\ response = Ok("create")
    /\ Len(appointments) = 2
    /\ appointments[1].doctor_id = appointments[2].doctor_id
    /\ appointments[1].patient_id = appointments[2].patient_id
    /\ Apart(appointments[1].scheduled_time, 2) = SlotMinutes + 1
    /\ \A i \in 1..2 :
           validate_appointment_slot(appointments, availabilities, appointments[i].doctor_id,
                                     appointments[i].patient_id,
                                     appointments[i].scheduled_time, Some(i)) = "ok"

----------------------------------------------------------------------------
(* Refresh with tokens whose subject is not the owner of the record: a user *)
(* row deleted after its login (its records go with it where the store      *)
(* applies ON DELETE CASCADE, models.py:99, and stay where it does not),    *)
(* and tokens carrying the refresh signature whose sub and jti do not       *)
(* belong together.                                                         *)

\* the id of a user row that was deleted after the user had logged in
DepartedUser == 3

\* what the login of the departed user left behind
DepartedRecord ==
    [user_id |-> DepartedUser, jti |-> 1, expires_at |-> REFRESH_TOKEN_EXPIRE_MINUTES,
     revoked |-> FALSE]
DepartedToken == create_refresh_token(DepartedUser, 1, 0)

\* refresh tokens pairing every existing user with every jti
CrossSigned ==
    {[type |-> "refresh", sub |-> u, jti |-> j, exp |-> FarFuture,
      key |-> "JWT_REFRESH_SECRET_KEY"] : u \in Users, j \in 1..MaxTokens}

InitSubject ==
    /\ appointments = <<>>
    /\ availabilities = <<>>
    /\ refresh_tokens \in {<<>>, <<DepartedRecord>>}
    /\ now = 0
    /\ issued = {DepartedToken}
    /\ patients = <<>>
    /\ cipher = IdleCipher
    /\ response = Ok("start")
    /\ req = <<>>

SRefresh == \E token \in issued \cup CrossSigned : auth_refresh(token)

NextSubject == Login \/ SRefresh \/ Tick

SpecSubject == InitSubject /\ [][NextSubject]_vars

(* C38 *)
\* no record validates for a user other than its owner
C38_OtherUserNotValidated ==
    \A i \in 1..Len(refresh_tokens), u \in Users \cup {DepartedUser} :
        u # refresh_tokens[i].user_id =>
            ~validate_refresh_token(refresh_tokens, refresh_tokens[i].jti, u, now)

\* a refresh that succeeds rotates a record of the very user it issues the new pair to,
\* an existing user; no step touches or adds a record of the departed user
C38_RotatesOwnRecord ==
    /\ (response'.op = "refresh" /\ response'.code = 200 /\ issued' # issued) =>
           /\ NewRecord.user_id \in Users
           /\ \E tok \in issued' \ issued : tok.type = "refresh" /\ tok.sub = NewRecord.user_id
           /\ \E i \in 1..Len(refresh_tokens) :
                  /\ ~refresh_tokens[i].revoked /\ refresh_tokens'[i].revoked
                  /\ refresh_tokens[i].user_id = NewRecord.user_id
                  /\ \A k \in 1..Len(refresh_tokens) : k # i => refresh_tokens'[k] = refresh_tokens[k]
    /\ \A i \in 1..Len(refresh_tokens') :
           refresh_tokens'[i].user_id = DepartedUser =>
               i <= Len(refresh_tokens) /\ refresh_tokens'[i] = refresh_tokens[i]

\* C38: a refresh token is accepted only if the record with its jti belongs to the
\* token's subject: a record with the same jti and another user_id does not validate,
\* and a refresh for a subject whose user no longer exists fails as unauthenticated,
\* with no record revoked or added.
C38_RecordOfSubject ==
    /\ [](C38_OtherUserNotValidated)
    /\ [][C38_RotatesOwnRecord]_vars

\* a refresh was refused as invalid-or-revoked although every stored record, one of an
\* existing user and one of the departed user among them, is live: the token presented
\* named a subject that does not own the record of its jti, or the departed user
C38_Witness ==
    /\ response = Err("refresh", 401, "Token invalid or revoked")
    /\ now = 0
    /\ \A i \in 1..Len(refresh_tokens) : ~refresh_tokens[i].revoked
    /\ \E i \in 1..Len(refresh_tokens) : refresh_tokens[i].user_id \in Users
    /\ \E i \in 1..Len(refresh_tokens) : refresh_tokens[i].user_id = DepartedUser

(* C39 *)
\* the access tokens handed out so far
AccessIssued == {tok \in issued : tok.type = "access"}

\* an access token handed out by the server is accepted exactly until its own exp
C39_AcceptedUntilExpiry ==
    \A tok \in AccessIssued :
        /\ now <= tok.exp => get_current_user(tok, now) = [code |-> 200, detail |-> "ok",
                                                           user |-> Some(tok.sub)]
        /\ now > tok.exp => get_current_user(tok, now).code = 401

\* a login or a refresh, whatever it stores or revokes, changes the outcome of validating
\* no access token
C39_RecordsDoNotMatter ==
    now' = now =>
        \A tok \in AccessIssued : get_current_user(tok, now)' = get_current_user(tok, now)

\* C39: access-token validation does not depend on the refresh-token records: revoking
\* or rotating a user's refresh token changes the outcome of validating no access token,
\* and an access token issued before a rotation is accepted until its own expiry.
C39_AccessIndependent ==
    /\ [](C39_AcceptedUntilExpiry)
    /\ [][C39_RecordsDoNotMatter]_vars

\* GET /public/doctors has just accepted the access token of a user whose login record
\* was revoked by a rotation: the only access token handed out was issued at that login
C39_Witness ==
    /\ response = Ok("list_doctors_public")
    /\ \E u \in Users :
           /\ AccessIssued = {create_access_token(u, 0)}
           /\ \E i \in 1..Len(refresh_tokens) :
                  refresh_tokens[i].user_id = u /\ refresh_tokens[i].revoked

====
